---- MODULE Spec2Model ----
(***************************************************************************)
(* Model of the runtime bootstrap / update subsystem of the Transcript     *)
(* Processor launcher: app/runtime.py, app/updater.py, app/entrypoint.py,  *)
(* app/bootstrap.py and app/runtime_installer.py, and of the model update  *)
(* checker src/model_update.py.                                            *)
(*                                                                         *)
(* Text (version markers, manifest fields, digests, URLs) is modelled as   *)
(* sequences of one-character strings so that strip(), lower(), the        *)
(* regular expressions and the integer parsing are computed, not assumed.  *)
(***************************************************************************)
EXTENDS Integers, Sequences, FiniteSets, TLC

(***************************************************************************)
(* Text helpers                                                            *)
(***************************************************************************)

Digits == {"0", "1", "2", "3", "4", "5", "6", "7", "8", "9"}

DigitVal(c) ==
    CASE c = "0" -> 0 [] c = "1" -> 1 [] c = "2" -> 2 [] c = "3" -> 3
      [] c = "4" -> 4 [] c = "5" -> 5 [] c = "6" -> 6 [] c = "7" -> 7
      [] c = "8" -> 8 [] c = "9" -> 9

Rep(c, n) == [i \in 1..n |-> c]

IsSpace(c) == c \in {" ", "\n"}

\* str.strip()
RECURSIVE Strip(_)
Strip(s) ==
    IF s = <<>> THEN s
    ELSE IF IsSpace(Head(s)) THEN Strip(Tail(s))
    ELSE IF IsSpace(s[Len(s)]) THEN Strip(SubSeq(s, 1, Len(s) - 1))
    ELSE s

LowerChar(c) ==
    CASE c = "A" -> "a" [] c = "B" -> "b" [] c = "C" -> "c"
      [] c = "D" -> "d" [] c = "E" -> "e" [] c = "F" -> "f"
      [] c = "G" -> "g"
      [] OTHER -> c

\* str.lower()
Lower(s) == [i \in 1..Len(s) |-> LowerChar(s[i])]

\* str.startswith(prefix)
StartsWith(s, prefix) ==
    /\ Len(s) >= Len(prefix)
    /\ SubSeq(s, 1, Len(prefix)) = prefix

\* int(part) for a run of decimal digits
RECURSIVE DigitsToInt(_)
DigitsToInt(s) ==
    IF s = <<>> THEN 0
    ELSE 10 * DigitsToInt(SubSeq(s, 1, Len(s) - 1)) + DigitVal(s[Len(s)])

\* version.split(".")
RECURSIVE SplitDots(_)
SplitDots(s) ==
    IF \A i \in 1..Len(s) : s[i] # "." THEN <<s>>
    ELSE LET k == CHOOSE i \in 1..Len(s) :
                      s[i] = "." /\ \A j \in 1..(i - 1) : s[j] # "."
         IN <<SubSeq(s, 1, k - 1)>> \o SplitDots(SubSeq(s, k + 1, Len(s)))

\* Results of calls that may raise: exc = "none" means a normal return.
Return(v) == [exc |-> "none", val |-> v]
Raise(e) == [exc |-> e, val |-> <<>>]

(***************************************************************************)
(* app/runtime.py: version model                                           *)
(***************************************************************************)

\* re.fullmatch(r"\d+(?:\.\d+)*", version)
FullMatchVersion(version) ==
    /\ Len(version) > 0
    /\ \A i \in 1..Len(version) : version[i] \in Digits \cup {"."}
    /\ version[1] \in Digits
    /\ version[Len(version)] \in Digits
    /\ \A i \in 1..(Len(version) - 1) : ~(version[i] = "." /\ version[i + 1] = ".")

parse_version(version) ==
    IF version = <<>> \/ ~FullMatchVersion(version)
    THEN Raise("ValueError")
    ELSE LET parts == SplitDots(version)
         IN Return([i \in 1..Len(parts) |-> DigitsToInt(parts[i])])

Max(a, b) == IF a >= b THEN a ELSE b

\* t + (0,) * (length - len(t))
PadZeros(t, length) == [i \in 1..length |-> IF i <= Len(t) THEN t[i] ELSE 0]

\* Python's tuple ordering a > b
RECURSIVE TupleGreater(_, _)
TupleGreater(a, b) ==
    IF a = <<>> THEN FALSE
    ELSE IF b = <<>> THEN TRUE
    ELSE IF Head(a) # Head(b) THEN Head(a) > Head(b)
    ELSE TupleGreater(Tail(a), Tail(b))

is_remote_newer_unpadded(local_version, remote_version) ==
    LET local == parse_version(local_version)
        remote == parse_version(remote_version)
    IN IF local.exc # "none" THEN local
       ELSE IF remote.exc # "none" THEN remote
       ELSE Return(TupleGreater(remote.val, local.val))

is_remote_newer(local_version, remote_version) ==
    LET local == parse_version(local_version)
        remote == parse_version(remote_version)
    IN IF local.exc # "none" THEN local
       ELSE IF remote.exc # "none" THEN remote
       ELSE LET length == Max(Len(local.val), Len(remote.val))
            IN Return(TupleGreater(PadZeros(remote.val, length),
                                   PadZeros(local.val, length)))

(***************************************************************************)
(* Text values used as inputs                                              *)
(***************************************************************************)

T_unknown == <<"u", "n", "k", "n", "o", "w", "n">>
T_000 == <<"0", ".", "0", ".", "0">>
V015 == <<"0", ".", "1", ".", "5">>
V019 == <<"0", ".", "1", ".", "9">>
V0190 == <<"0", ".", "1", ".", "9", ".", "0">>
V02 == <<"0", ".", "2">>
V010 == <<"0", ".", "1", "0">>
V019nl == V019 \o <<"\n">>
Vsp02 == <<" ">> \o V02
Vbad == <<"v", "1">>
Vdots == <<"1", ".", ".", "2">>
Vempty == <<>>

T_https == <<"h", "t", "t", "p", "s", ":", "/", "/">>
Url_https == T_https \o <<"x">>
Url_http == <<"h", "t", "t", "p", ":", "/", "/", "x">>

\* Length of a SHA-256 hex digest, as the manifest check requires it.
ShaLen == 64

HexChars == Digits \cup {"a", "b", "c", "d", "e", "f"}

HexA == Rep("a", ShaLen)
HexB == Rep("b", ShaLen)
HexAUpperPadded == <<" ">> \o Rep("A", ShaLen) \o <<"\n">>
HexShort == Rep("a", ShaLen - 1)
HexNonHex == Rep("g", ShaLen)

\* Payload archives a server may deliver, and hashlib.sha256(...).hexdigest()
\* of each: distinct contents have distinct lowercase hex digests.
Payloads == {"genuine", "tampered"}

SHA256Hex(bytes) == IF bytes = "genuine" THEN HexA ELSE HexB

(***************************************************************************)
(* app/updater.py: manifest client                                         *)
(***************************************************************************)

\* A JSON member of the manifest object: absent, a string, or another type.
FStr(s) == [present |-> TRUE, isStr |-> TRUE, s |-> s]
FMissing == [present |-> FALSE, isStr |-> FALSE, s |-> <<>>]
FNumber == [present |-> TRUE, isStr |-> FALSE, s |-> <<>>]

\* A response body: not JSON, JSON that is no object, or a JSON object.
BodyNotJson == [json |-> FALSE, isDict |-> FALSE,
                fields |-> [runtime_version |-> FMissing, payload_url |-> FMissing,
                            payload_sha256 |-> FMissing]]
BodyJsonList == [json |-> TRUE, isDict |-> FALSE,
                 fields |-> [runtime_version |-> FMissing, payload_url |-> FMissing,
                             payload_sha256 |-> FMissing]]
BodyObject(v, u, h) == [json |-> TRUE, isDict |-> TRUE,
                        fields |-> [runtime_version |-> v, payload_url |-> u,
                                    payload_sha256 |-> h]]

Msg(kind, a, b) == [kind |-> kind, a |-> a, b |-> b]
NoMsg == Msg("none", <<>>, <<>>)

RaiseMsg(e, m) == [exc |-> e, val |-> m]

\* Transport outcomes of urlopen(): URLError (dns, refused, http_error),
\* TimeoutError (timeout), or a response whose body is read.
TransportFailures == {"dns", "refused", "timeout", "http_error"}

fetch_manifest_timeout_unmapped(outcome, body) ==
    IF outcome \in TransportFailures \ {"timeout"}
    THEN RaiseMsg("NetworkError", Msg("transport", <<outcome>>, <<>>))
    ELSE IF outcome = "timeout"
    THEN RaiseMsg("TimeoutError", Msg("transport", <<outcome>>, <<>>))
    ELSE IF ~body.json
    THEN RaiseMsg("ManifestError", Msg("not_json", <<>>, <<>>))
    ELSE Return(body)

fetch_manifest(outcome, body) ==
    IF outcome \in TransportFailures
    THEN RaiseMsg("NetworkError", Msg("transport", <<outcome>>, <<>>))
    ELSE IF ~body.json
    THEN RaiseMsg("ManifestError", Msg("not_json", <<>>, <<>>))
    ELSE Return(body)

RequiredFields == <<"runtime_version", "payload_url", "payload_sha256">>

\* not isinstance(value, str) or not value.strip()
FieldMissingOrInvalid(value) ==
    ~value.present \/ ~value.isStr \/ Strip(value.s) = <<>>

\* re.fullmatch(r"[0-9a-f]{64}", sha)
FullMatchSha(sha) ==
    /\ Len(sha) = ShaLen
    /\ \A i \in 1..Len(sha) : sha[i] \in HexChars

validate_manifest(manifest) ==
    IF ~manifest.isDict
    THEN RaiseMsg("ManifestError", Msg("not_object", <<>>, <<>>))
    ELSE IF \E i \in 1..Len(RequiredFields) :
                FieldMissingOrInvalid(manifest.fields[RequiredFields[i]])
    THEN LET k == CHOOSE i \in 1..Len(RequiredFields) :
                      /\ FieldMissingOrInvalid(manifest.fields[RequiredFields[i]])
                      /\ \A j \in 1..(i - 1) :
                            ~FieldMissingOrInvalid(manifest.fields[RequiredFields[j]])
         IN RaiseMsg("ManifestError", Msg("field", <<RequiredFields[k]>>, <<>>))
    ELSE IF is_remote_newer(T_000, manifest.fields.runtime_version.s).exc # "none"
    THEN RaiseMsg("ManifestError", Msg("bad_version", <<>>, <<>>))
    ELSE IF ~FullMatchSha(Lower(Strip(manifest.fields.payload_sha256.s)))
    THEN RaiseMsg("ManifestError", Msg("bad_sha", <<>>, <<>>))
    ELSE IF ~StartsWith(manifest.fields.payload_url.s, T_https)
    THEN RaiseMsg("ManifestError", Msg("not_https", <<>>, <<>>))
    ELSE Return(<<>>)

(***************************************************************************)
(* app/updater.py: integrity-verified download                             *)
(***************************************************************************)

\* What _download_with_progress did: net.ok with the bytes written to dest,
\* or a failure that may leave a partial file behind.
NetOutcomes ==
    {[ok |-> TRUE, bytes |-> b, partial |-> FALSE] : b \in Payloads}
    \cup {[ok |-> FALSE, bytes |-> "none", partial |-> p] : p \in BOOLEAN}

\* The result carries the state of the destination file afterwards.
DownloadResult(e, m, f) == [exc |-> e, val |-> m, file |-> f]

download_payload_with_hash_unchecked(url, expected_sha256, net) ==
    IF ~net.ok
    THEN DownloadResult("NetworkError", Msg("transport", <<>>, <<>>),
                        IF net.partial THEN "partial" ELSE "none")
    ELSE DownloadResult("none", NoMsg, net.bytes)

download_payload_with_hash_unwrapped(url, expected_sha256, net) ==
    LET expected == Lower(Strip(expected_sha256))
    IN IF ~net.ok
       THEN DownloadResult("URLError", Msg("transport", <<>>, <<>>),
                           IF net.partial THEN "partial" ELSE "none")
       ELSE LET actual == Lower(SHA256Hex(net.bytes))
            IN IF actual # expected
               THEN DownloadResult("IntegrityError",
                                   Msg("hash_mismatch", expected, actual), net.bytes)
               ELSE DownloadResult("none", NoMsg, net.bytes)

download_payload_with_hash(url, expected_sha256, net) ==
    LET expected == Lower(Strip(expected_sha256))
    IN IF ~net.ok
       THEN DownloadResult("NetworkError", Msg("transport", <<>>, <<>>),
                           IF net.partial THEN "partial" ELSE "none")
       ELSE LET actual == Lower(SHA256Hex(net.bytes))
            IN IF actual # expected
               THEN DownloadResult("IntegrityError",
                                   Msg("hash_mismatch", expected, actual), net.bytes)
               ELSE DownloadResult("none", NoMsg, net.bytes)


(***************************************************************************)
(* Filesystem: a runtime directory tree                                    *)
(***************************************************************************)

\* exists       the directory exists
\* gen          which generation of the runtime the tree holds
\* venv         venv/bin/python (RUNTIME_VENV_PY)
\* installed    .installed (INSTALL_MARKER)
\* hasVersion   .runtime_version (RUNTIME_VERSION_MARKER), versionText its content
\* appEntry     app/src/mac_app_modern.py
\* legacyCache  models/huggingface inside the runtime directory
\* installer    runtime_installer.py and requirements.txt
NoDir == [exists |-> FALSE, gen |-> "none", venv |-> FALSE, installed |-> FALSE,
          hasVersion |-> FALSE, versionText |-> <<>>, appEntry |-> FALSE,
          legacyCache |-> FALSE, installer |-> FALSE]

InstalledDir(gen, text, cache) ==
    [exists |-> TRUE, gen |-> gen, venv |-> TRUE, installed |-> TRUE,
     hasVersion |-> TRUE, versionText |-> text, appEntry |-> TRUE,
     legacyCache |-> cache, installer |-> TRUE]

\* The tree a payload archive unpacks to: interpreter, application source,
\* installer script and requirements; the venv and the markers come later.
ExtractedTree(bytes) ==
    [exists |-> TRUE, gen |-> bytes, venv |-> FALSE, installed |-> FALSE,
     hasVersion |-> FALSE, versionText |-> <<>>, appEntry |-> TRUE,
     legacyCache |-> FALSE, installer |-> TRUE]

\* What an extraction that raised midway leaves behind.
PartialTree(bytes) ==
    [exists |-> TRUE, gen |-> bytes, venv |-> FALSE, installed |-> FALSE,
     hasVersion |-> FALSE, versionText |-> <<>>, appEntry |-> FALSE,
     legacyCache |-> FALSE, installer |-> FALSE]

FsResult(e, m, f) == [exc |-> e, val |-> m, fs |-> f]

(***************************************************************************)
(* app/runtime.py: installation markers                                    *)
(***************************************************************************)

runtime_installed_marker_unchecked(dir) ==
    dir.exists /\ dir.venv /\ dir.hasVersion

runtime_installed(dir) ==
    dir.exists /\ dir.venv /\ dir.installed /\ dir.hasVersion

\* None (none = TRUE) when the marker cannot be read
installed_runtime_version(dir) ==
    IF dir.exists /\ dir.hasVersion
    THEN [none |-> FALSE, s |-> Strip(dir.versionText)]
    ELSE [none |-> TRUE, s |-> <<>>]

read_local_runtime_version(dir) ==
    LET version == installed_runtime_version(dir)
    IN IF version.none \/ version.s = <<>> THEN T_unknown ELSE version.s

normalize_compare_version_unchecked(version) ==
    IF version = <<>> \/ version = T_unknown THEN T_000 ELSE version

normalize_compare_version(version) ==
    IF version = <<>> \/ version = T_unknown THEN T_000
    ELSE IF is_remote_newer(T_000, version).exc = "none" THEN version
    ELSE T_000

(***************************************************************************)
(* app/bootstrap.py helpers and app/runtime_installer.py                   *)
(***************************************************************************)

\* tarfile extraction into dest_dir, which is removed and recreated first
extract_tar(bytes, tarOk) ==
    IF tarOk THEN [exc |-> "none", dir |-> ExtractedTree(bytes)]
    ELSE [exc |-> "TarError", dir |-> PartialTree(bytes)]

\* def _chmod_runtime_bin() declares no parameter
chmod_runtime_bin_params == 0

\* A call with nargs positional arguments; the function itself changes only
\* permission bits under RUNTIME_DIR/python/bin and swallows its errors.
chmod_runtime_bin(nargs) ==
    IF nargs > chmod_runtime_bin_params THEN Raise("TypeError") ELSE Return(<<>>)

\* brew: "missing" (no Homebrew), "fail" (brew install exits non-zero), "ok"
ensure_system_deps(brew) ==
    IF brew = "missing" THEN RaiseMsg("RuntimeError", Msg("BREW_MISSING", <<>>, <<>>))
    ELSE IF brew = "fail" THEN RaiseMsg("RuntimeError", Msg("brew_install", <<>>, <<>>))
    ELSE Return(<<>>)

\* The options runtime_installer.py's argument parser declares, all required.
InstallerOptions == {"--runtime-dir", "--requirements"}

\* The sub-steps of the installer (total_steps).
InstallerSteps == 4

\* runtime_installer.main: argv is the set of options passed, failStep the
\* first sub-step whose process exits non-zero (0: none fails).
installer_main(argv, dir, failStep) ==
    IF argv # InstallerOptions
    THEN [exit |-> 2, dir |-> dir]
    ELSE IF failStep \in 1..InstallerSteps
    THEN [exit |-> 1,
          dir |-> [dir EXCEPT !.venv = failStep > 1,
                              !.legacyCache = dir.legacyCache \/ failStep = InstallerSteps]]
    ELSE [exit |-> 0,
          dir |-> [dir EXCEPT !.venv = TRUE, !.legacyCache = TRUE, !.installed = TRUE]]

\* The keyword parameters bootstrap._install_runtime declares.
InstallRuntimeParams == {"progress_cb", "download_cb", "file_download_cb"}

\* The command line bootstrap._install_runtime builds for the installer.
InstallRuntimeArgv == {"--runtime-dir", "--requirements", "--runtime-version"}

\* bootstrap._install_runtime called with the keyword names kwargs; it works on
\* RUNTIME_DIR (dir) whatever the caller intended.
install_runtime(kwargs, dir, failStep) ==
    IF ~(kwargs \subseteq InstallRuntimeParams)
    THEN [exc |-> "TypeError", dir |-> dir]
    ELSE IF ~(dir.exists /\ dir.installer)
    THEN [exc |-> "RuntimeError", dir |-> dir]
    ELSE LET run == installer_main(InstallRuntimeArgv, dir, failStep)
         IN [exc |-> IF run.exit # 0 THEN "RuntimeError" ELSE "none", dir |-> run.dir]

(***************************************************************************)
(* app/updater.py: atomic swap                                             *)
(* fs = [active, backup, staging, shared]: RUNTIME_DIR, RUNTIME_DIR_prev,  *)
(* the staging directory, and MODEL_CACHE_DIR.                             *)
(***************************************************************************)

SwapFaults == {"none", "rm_old_backup", "move_active", "move_staging", "rm_backup"}

\* if backup_dir.exists(): shutil.rmtree(backup_dir)
SwapRmBackup(fs) ==
    IF fs.backup.exists THEN [fs EXCEPT !.backup = NoDir] ELSE fs

\* if active_dir.exists(): active_dir.rename(backup_dir)
SwapMoveActive(fs) ==
    IF fs.active.exists THEN [fs EXCEPT !.backup = fs.active, !.active = NoDir] ELSE fs

\* staging_dir.rename(active_dir) can succeed only if staging exists
SwapCanMoveStaging(fs, fault) ==
    fs.staging.exists /\ ~fs.active.exists /\ fault # "move_staging"

SwapMoveStaging(fs) == [fs EXCEPT !.active = fs.staging, !.staging = NoDir]

SwapRestore_missing(fs) == fs

\* except: if backup_dir.exists() and not active_dir.exists(): backup_dir.rename(active_dir)
SwapRestore(fs) ==
    IF fs.backup.exists /\ ~fs.active.exists
    THEN [fs EXCEPT !.active = fs.backup, !.backup = NoDir]
    ELSE fs

atomic_swap_runtime(fs, fault) ==
    IF fs.backup.exists /\ fault = "rm_old_backup" THEN FsResult("OSError", NoMsg, fs)
    ELSE LET s1 == SwapRmBackup(fs)
         IN IF s1.active.exists /\ fault = "move_active"
            THEN FsResult("OSError", NoMsg, s1)
            ELSE LET s2 == SwapMoveActive(s1)
                 IN IF ~SwapCanMoveStaging(s2, fault)
                    THEN FsResult("OSError", NoMsg, SwapRestore(s2))
                    ELSE LET s3 == SwapMoveStaging(s2)
                         IN IF s3.backup.exists /\ fault = "rm_backup"
                            THEN FsResult("OSError", NoMsg, s3)
                            ELSE FsResult("none", NoMsg, SwapRmBackup(s3))

(***************************************************************************)
(* app/updater.py: staged install                                          *)
(***************************************************************************)

\* rename: legacy_cache.rename(MODEL_CACHE_DIR) succeeds; copy: the copytree
\* fallback succeeds.  shared is "absent", "complete" or "partial".
seed_shared_model_cache(fs, rename, copy) ==
    IF fs.shared # "absent" \/ ~(fs.active.exists /\ fs.active.legacyCache)
    THEN FsResult("none", NoMsg, fs)
    ELSE IF rename
    THEN FsResult("none", NoMsg,
                  [fs EXCEPT !.shared = "complete", !.active.legacyCache = FALSE])
    ELSE IF copy
    THEN FsResult("none", NoMsg, [fs EXCEPT !.shared = "complete"])
    ELSE FsResult("OSError", Msg("copytree", <<>>, <<>>), [fs EXCEPT !.shared = "partial"])

\* The environment of one staged install.
InstallEnvs ==
    [rename : BOOLEAN, copy : BOOLEAN, tarOk : BOOLEAN,
     brew : {"ok", "missing", "fail"}, failStep : 0..InstallerSteps,
     fault : SwapFaults]

\* Keyword names install_runtime_from_payload passes to _install_runtime.
UpdaterInstallKwargs == {"runtime_dir", "runtime_python", "runtime_version"}

\* The result also says whether the archive was unpacked (extracted).
InstallResult(e, m, f, x) == [exc |-> e, val |-> m, fs |-> f, extracted |-> x]

install_runtime_from_payload(fs, bytes, runtime_version, env) ==
    LET s0 == [fs EXCEPT !.staging = NoDir]
        seeded == seed_shared_model_cache(s0, env.rename, env.copy)
    IN IF seeded.exc # "none"
       THEN InstallResult(seeded.exc, seeded.val, seeded.fs, FALSE)
       ELSE LET tar == extract_tar(bytes, env.tarOk)
                s1 == [seeded.fs EXCEPT !.staging = tar.dir]
            IN IF tar.exc # "none"
               THEN InstallResult(tar.exc, Msg("extract", <<>>, <<>>), s1, TRUE)
               ELSE IF chmod_runtime_bin(1).exc # "none"
               THEN InstallResult(chmod_runtime_bin(1).exc, Msg("chmod", <<>>, <<>>), s1, TRUE)
               ELSE IF ensure_system_deps(env.brew).exc # "none"
               THEN InstallResult("RuntimeError", ensure_system_deps(env.brew).val, s1, TRUE)
               ELSE LET inst == install_runtime(UpdaterInstallKwargs, s1.active, env.failStep)
                        s2 == [s1 EXCEPT !.active = inst.dir]
                    IN IF inst.exc # "none"
                       THEN InstallResult(inst.exc, Msg("install", <<>>, <<>>), s2, TRUE)
                       ELSE LET swapped == atomic_swap_runtime(s2, env.fault)
                            IN InstallResult(swapped.exc, Msg("swap", <<>>, <<>>),
                                             swapped.fs, TRUE)


(***************************************************************************)
(* app/entrypoint.py                                                       *)
(***************************************************************************)

\* launch_real_app(): the return code; 0 means the runtime was started.
launch_real_app(dir) ==
    IF ~(dir.exists /\ dir.venv) THEN 1
    ELSE IF ~(dir.exists /\ dir.appEntry) THEN 1
    ELSE 0

MainOutcome(l, b, s, e) == [launch |-> l, bootstrap |-> b, shown |-> s, exit |-> e]

main_after_decision_blocked_launches(action, dir) ==
    IF action \in {"launch_current", "updated_and_launch", "launch_blocked"}
    THEN MainOutcome(launch_real_app(dir) = 0, launch_real_app(dir) # 0, FALSE, 0)
    ELSE IF action = "bootstrap_required"
    THEN MainOutcome(FALSE, TRUE, FALSE, 0)
    ELSE MainOutcome(launch_real_app(dir) = 0, FALSE, FALSE, 0)

\* main() after run_startup_update_flow() returned decision.action
main_after_decision(action, dir) ==
    IF action \in {"launch_current", "updated_and_launch"}
    THEN MainOutcome(launch_real_app(dir) = 0, launch_real_app(dir) # 0, FALSE, 0)
    ELSE IF action = "bootstrap_required"
    THEN MainOutcome(FALSE, TRUE, FALSE, 0)
    ELSE IF action = "launch_blocked"
    THEN MainOutcome(FALSE, FALSE, TRUE, 1)
    ELSE MainOutcome(launch_real_app(dir) = 0, FALSE, FALSE, 0)

(***************************************************************************)
(* State                                                                   *)
(***************************************************************************)

VARIABLES
    active,           \* RUNTIME_DIR
    backup,           \* RUNTIME_DIR_prev
    staging,          \* runtime_staging_<pid>
    shared,           \* MODEL_CACHE_DIR: "absent", "complete", "partial"
    payloadFile,      \* UPDATE_PAYLOAD_FILE: "none", "partial" or the bytes
    entry,            \* what was called: "main" or "flow"
    performUpdate,    \* run_startup_update_flow(perform_update)
    body,             \* the document served at the manifest URL
    active0,          \* RUNTIME_DIR when the call started
    shared0,          \* MODEL_CACHE_DIR when the call started
    pc,               \* position of the caller
    local_version,    \* run_startup_update_flow: local_version
    messages,         \* run_startup_update_flow: messages
    manifest,         \* run_startup_update_flow: manifest
    decision,         \* the UpdateDecision returned
    raised,           \* the exception that left run_startup_update_flow
    startupLog,       \* STARTUP_UPDATE_LOG
    updateState,      \* UPDATE_STATE_FILE
    logWrites,        \* times STARTUP_UPDATE_LOG was written in this evaluation
    stateWrites,      \* times UPDATE_STATE_FILE was written in this evaluation
    launched,         \* the tree the application was started from
    uiShown,          \* _show_launch_blocked was called
    exitCode,         \* main()'s return value
    wpc,              \* position of the bootstrap worker
    bootPayload,      \* runtime_payload.tar.gz of the first install
    bootResult,       \* the worker's terminal message
    downloads,        \* payload downloads attempted by the flow
    served,           \* what the payload download delivered
    fetched,          \* how the manifest fetch ended
    extractions,      \* archives unpacked, with the digest each was checked against
    installAttempted, \* install_runtime_from_payload was called
    installClean,     \* no step of that install met an environment failure
    manifestVerdict,  \* how validate_manifest ended: "accepted" or "ManifestError"
    installExc,       \* the exception class install_runtime_from_payload raised
    spc,              \* position inside atomic_swap_runtime
    fault,            \* the filesystem step that fails in this swap
    swapFailedAt,     \* the step of the swap that raised
    launchNo,         \* which start of the bootstrapper this is (1, 2, ...)
    pendingOwner,     \* the launch that wrote the log found on disk at this start
    writers,          \* earlier launches whose flow wrote the log
    appPc,            \* TranscriptProcessorApp.__init__: "none", "running", "closed"
    shownIds,         \* per display by load_startup_update_log, the launch that wrote it
    ipc,              \* position inside runtime_installer.main
    iargv,            \* the options on the installer's command line
    stepsRun,         \* the installer sub-steps started, in the order they ran
    failedStep,       \* the sub-step that exited non-zero, 0 when none
    vcmp,             \* one evaluation of is_remote_newer: its arguments and results
    modelState,       \* model_update_state.json as load_state reads it
    refsMain,         \* the text of refs/main in the model cache
    snapshotName,     \* the newest directory under snapshots/
    clock,            \* datetime.now(), in hours
    mres,             \* the last model_update call: arguments, result, effects
    fpc,              \* _fetch_remote_model_sha: position of the calling thread
    tpc,              \* _fetch_remote_model_sha: position of the _worker thread
    fresult,          \* _fetch_remote_model_sha: the result dict
    fret,             \* the tuple _fetch_remote_model_sha returned
    fanswer,          \* what the registry query comes to if it ever finishes
    sv,               \* save_state: position, argument, injected fault, exception
    tempFile,         \* the .model_update_state.* temp file
    stateFile,        \* model_update_state.json on disk
    uipc,             \* run_bootstrap_ui: position of the Tk thread
    threads,          \* position of every worker thread started so far
    q,                \* the queue between the worker threads and poll()
    worker_running,   \* worker_running["value"]
    retryEnabled,     \* retry_btn.enabled
    putLog,           \* per worker thread, what it put and when it reset the flag
    uiLaunches        \* the messages in response to which the app was launched

fsVars == <<active, backup, staging, shared, payloadFile>>
inVars == <<entry, performUpdate, body, active0, shared0>>
flowVars == <<local_version, messages, manifest, decision, raised, startupLog, updateState,
              logWrites, stateWrites>>
mainVars == <<launched, uiShown, exitCode>>
bootVars == <<wpc, bootPayload, bootResult>>
ghostVars == <<downloads, served, fetched, extractions, installAttempted, installClean,
               manifestVerdict, installExc>>
swapVars == <<spc, fault, swapFailedAt>>
logVars == <<launchNo, pendingOwner, writers, appPc, shownIds>>
instVars == <<ipc, iargv, stepsRun, failedStep>>
updVars == <<modelState, refsMain, snapshotName, clock, mres>>
fetchVars == <<fpc, tpc, fresult, fret, fanswer>>
saveVars == <<sv, tempFile, stateFile>>
uiVars == <<uipc, threads, q, worker_running, retryEnabled, putLog, uiLaunches>>
modVars == <<vcmp, updVars, fetchVars, saveVars, uiVars>>
auxVars == <<logVars, instVars, modVars>>

vars == <<fsVars, inVars, pc, flowVars, mainVars, bootVars, ghostVars, swapVars, auxVars>>

FS == [active |-> active, backup |-> backup, staging |-> staging, shared |-> shared]

SetFS(f) ==
    /\ active' = f.active
    /\ backup' = f.backup
    /\ staging' = f.staging
    /\ shared' = f.shared

(***************************************************************************)
(* Initial states                                                          *)
(***************************************************************************)

LocalVersionTexts == {V015, V019nl, V02, Vempty, Vbad}

\* RUNTIME_DIR before a launch: absent, a complete installation, or one that
\* lacks a marker or the application entry.
ActiveInits ==
    {InstalledDir("old", t, c) : t \in LocalVersionTexts, c \in BOOLEAN}
    \cup {NoDir,
          [InstalledDir("old", V015, FALSE) EXCEPT !.installed = FALSE],
          [InstalledDir("old", Vbad, TRUE) EXCEPT !.installed = FALSE],
          [InstalledDir("old", V015, TRUE) EXCEPT !.hasVersion = FALSE, !.versionText = <<>>],
          [InstalledDir("old", V015, FALSE) EXCEPT !.appEntry = FALSE]}

RemoteVersions == {V015, V019, V0190, V02, V010}

ManifestBodies ==
    {BodyObject(FStr(v), FStr(Url_https), FStr(HexA)) : v \in RemoteVersions}
    \cup {BodyObject(FStr(V02), FStr(Url_https), FStr(HexAUpperPadded)),
          BodyNotJson,
          BodyJsonList,
          BodyObject(FMissing, FStr(Url_https), FStr(HexA)),
          BodyObject(FStr(V02), FStr(Url_https), FNumber),
          BodyObject(FStr(V02), FStr(<<" ">>), FStr(HexA)),
          BodyObject(FStr(Vbad), FStr(Url_https), FStr(HexA)),
          BodyObject(FStr(Vdots), FStr(Url_https), FStr(HexA)),
          BodyObject(FStr(Vsp02), FStr(Url_https), FStr(HexA)),
          BodyObject(FStr(V02), FStr(Url_https), FStr(HexShort)),
          BodyObject(FStr(V02), FStr(Url_https), FStr(HexNonHex)),
          BodyObject(FStr(V02), FStr(Url_http), FStr(HexA))}

NoDecision == [action |-> "none", error |-> NoMsg, messages |-> <<>>]
NoLog == [written |-> FALSE, lines |-> <<>>]
NoState == [written |-> FALSE, local_version |-> <<>>, remote_version |-> <<>>,
            action |-> "none", error |-> NoMsg]
NoNet == [ok |-> FALSE, bytes |-> "none", partial |-> FALSE]

IdleDefaults ==
    /\ local_version = <<>>
    /\ messages = <<>>
    /\ manifest = BodyNotJson
    /\ decision = NoDecision
    /\ raised = "none"
    /\ startupLog = NoLog
    /\ updateState = NoState
    /\ logWrites = 0
    /\ stateWrites = 0
    /\ launched = NoDir
    /\ uiShown = FALSE
    /\ exitCode = "none"
    /\ wpc = "idle"
    /\ bootPayload = "none"
    /\ bootResult = "none"
    /\ downloads = 0
    /\ served = NoNet
    /\ fetched = "none"
    /\ extractions = {}
    /\ installAttempted = FALSE
    /\ installClean = FALSE
    /\ manifestVerdict = "none"
    /\ installExc = "none"
    /\ swapFailedAt = "none"

LogDefaults ==
    /\ launchNo = 1
    /\ pendingOwner = 0
    /\ writers = {}
    /\ appPc = "none"
    /\ shownIds = <<>>

InstallerDefaults ==
    /\ ipc = "idle"
    /\ iargv = {}
    /\ stepsRun = <<>>
    /\ failedStep = 0

(***************************************************************************)
(* src/model_update.py: revision ids, persisted state, update checks       *)
(*                                                                         *)
(* None and the empty string, which every test of this module treats alike *)
(* (`not x`, `x and ...`), are both the empty sequence.  Error texts are    *)
(* short tokens, "none" for None.                                          *)
(***************************************************************************)

RevisionLen == 40

HexLower == Digits \cup {"a", "b", "c", "d", "e", "f"}

\* bool(value and re.fullmatch(r"[0-9a-f]{40}", value))
is_valid_sha(value) ==
    /\ Len(value) = RevisionLen
    /\ \A i \in 1..Len(value) : value[i] \in HexLower

ShaA == Rep("a", RevisionLen)
ShaB == Rep("b", RevisionLen)
ShaUpper == Rep("A", RevisionLen)
BranchMain == <<"m", "a", "i", "n">>
ShaShort == Rep("c", 7)

\* datetime.isoformat() of a time given in whole hours: "26T" and two digits
iso_now(now) ==
    <<"2", "6", "T">> \o <<CHOOSE d \in Digits : DigitVal(d) = now \div 10,
                           CHOOSE d \in Digits : DigitVal(d) = now % 10>>

IsoGarbage == <<"s", "o", "o", "n">>

NoTime == [ok |-> FALSE, t |-> 0]

\* _parse_iso: None for an absent or unparsable text
parse_iso(dt_text) ==
    IF dt_text = <<>> THEN NoTime
    ELSE IF /\ Len(dt_text) = 5
            /\ SubSeq(dt_text, 1, 3) = <<"2", "6", "T">>
            /\ dt_text[4] \in Digits /\ dt_text[5] \in Digits
         THEN [ok |-> TRUE, t |-> DigitsToInt(SubSeq(dt_text, 4, 5))]
         ELSE NoTime

state_defaults ==
    [last_check_at |-> <<>>, last_remote_sha |-> <<>>, last_installed_sha |-> <<>>,
     deferred_sha |-> <<>>, last_error |-> "none"]

should_check_now_ignoring_interval(state, min_interval_hours, now) ==
    LET last_check == parse_iso(state.last_check_at)
    IN IF ~last_check.ok THEN TRUE ELSE now - last_check.t >= 0

should_check_now(state, min_interval_hours, now) ==
    LET last_check == parse_iso(state.last_check_at)
    IN IF ~last_check.ok THEN TRUE ELSE now - last_check.t >= min_interval_hours

\* _read_sha_file(refs/main), then the newest snapshot directory with a valid
\* name.  The last resort, snapshot_download(local_files_only=True), resolves
\* through the same two places and adds nothing to them.
get_local_model_sha(refs, snap) ==
    IF is_valid_sha(Strip(refs)) THEN Strip(refs)
    ELSE IF is_valid_sha(snap) THEN snap
    ELSE <<>>

\* What the registry query comes to: a revision id, an exception, or no
\* answer within timeout_s.
RegistryAnswers ==
    {[kind |-> "sha", sha |-> x] : x \in {ShaA, ShaB, ShaUpper}}
        \cup {[kind |-> "error", sha |-> <<>>], [kind |-> "timeout", sha |-> <<>>]}

\* _fetch_remote_model_sha as its caller sees it: (sha, error)
fetch_remote_model_sha(answer) ==
    CASE answer.kind = "timeout" -> [sha |-> <<>>, error |-> "timeout"]
      [] answer.kind = "error" -> [sha |-> <<>>, error |-> "registry_error"]
      [] OTHER -> IF is_valid_sha(answer.sha)
                  THEN [sha |-> answer.sha, error |-> "none"]
                  ELSE [sha |-> <<>>, error |-> "invalid_remote_sha"]

CheckResult(status, local_sha, remote_sha, should_prompt, error) ==
    [status |-> status, local_sha |-> local_sha, remote_sha |-> remote_sha,
     should_prompt |-> should_prompt, error |-> error]

\* What one call did: its result, the state it saved, the cache afterwards.
Outcome(res, state, saved, queried, refs, snap, downloaded) ==
    [res |-> res, state |-> state, saved |-> saved, queried |-> queried,
     refs |-> refs, snap |-> snap, downloaded |-> downloaded]

check_for_update(state, refs, snap, now, min_interval_hours, force, fetch) ==
    LET found == get_local_model_sha(refs, snap)
        either == IF found # <<>> THEN found ELSE state.last_installed_sha
        local_sha == IF is_valid_sha(either) THEN either ELSE <<>>
        known_remote == state.last_remote_sha
        checked == [state EXCEPT !.last_check_at = iso_now(now)]
        failed == [checked EXCEPT !.last_error = fetch.error]
        seen == [checked EXCEPT !.last_remote_sha = fetch.sha, !.last_error = "none"]
        same == [seen EXCEPT !.last_installed_sha = local_sha,
                             !.deferred_sha = IF seen.deferred_sha = fetch.sha
                                              THEN <<>> ELSE seen.deferred_sha]
    IN IF ~force /\ ~should_check_now(state, min_interval_hours, now)
       THEN IF is_valid_sha(known_remote) /\ known_remote # local_sha
            THEN Outcome(CheckResult("update_available", local_sha, known_remote, FALSE, "none"),
                         state, FALSE, FALSE, refs, snap, <<>>)
            ELSE IF local_sha # <<>>
            THEN Outcome(CheckResult("up_to_date", local_sha,
                                     IF is_valid_sha(known_remote) THEN known_remote
                                     ELSE local_sha, FALSE, "none"),
                         state, FALSE, FALSE, refs, snap, <<>>)
            ELSE Outcome(CheckResult("skipped", <<>>, <<>>, FALSE, "none"),
                         state, FALSE, FALSE, refs, snap, <<>>)
       ELSE IF fetch.sha = <<>>
       THEN Outcome(CheckResult(IF local_sha # <<>> THEN "offline" ELSE "error",
                                local_sha, <<>>, FALSE, fetch.error),
                    failed, TRUE, TRUE, refs, snap, <<>>)
       ELSE IF local_sha = fetch.sha
       THEN Outcome(CheckResult("up_to_date", local_sha, fetch.sha, FALSE, "none"),
                    same, TRUE, TRUE, refs, snap, <<>>)
       ELSE Outcome(CheckResult("update_available", local_sha, fetch.sha, TRUE, "none"),
                    seen, TRUE, TRUE, refs, snap, <<>>)

mark_deferred_keeping_check_time(state, refs, snap, now, remote_sha) ==
    Outcome(CheckResult("none", <<>>, <<>>, FALSE, "none"),
            [state EXCEPT !.deferred_sha = IF is_valid_sha(remote_sha) THEN remote_sha
                                           ELSE <<>>],
            TRUE, FALSE, refs, snap, <<>>)

mark_deferred(state, refs, snap, now, remote_sha) ==
    Outcome(CheckResult("none", <<>>, <<>>, FALSE, "none"),
            [state EXCEPT !.deferred_sha = IF is_valid_sha(remote_sha) THEN remote_sha
                                           ELSE <<>>,
                          !.last_check_at = iso_now(now)],
            TRUE, FALSE, refs, snap, <<>>)

\* How snapshot_download and the write of refs/main end.
ApplyFaults == {"none", "download", "refs_open", "refs_write"}

apply_update_pointer_first(state, refs, snap, now, remote_sha_arg, fetch, flt) ==
    LET remote_sha == IF remote_sha_arg = <<>> THEN fetch.sha ELSE remote_sha_arg
    IN Outcome(CheckResult("failure", <<>>, remote_sha, FALSE, "download_error"),
               [state EXCEPT !.last_error = "download_error"], TRUE,
               remote_sha_arg = <<>>, remote_sha \o <<"\n">>, snap, <<remote_sha>>)

apply_update(state, refs, snap, now, remote_sha_arg, fetch, flt) ==
    LET queried == remote_sha_arg = <<>>
        remote_sha == IF queried THEN fetch.sha ELSE remote_sha_arg
        \* a commit id names its own snapshot directory
        got == IF is_valid_sha(remote_sha) THEN remote_sha ELSE snap
        done == [state EXCEPT !.last_check_at = iso_now(now),
                              !.last_remote_sha = remote_sha,
                              !.last_installed_sha = remote_sha,
                              !.deferred_sha = <<>>,
                              !.last_error = "none"]
    IN IF remote_sha = <<>>
       THEN Outcome(CheckResult("failure", <<>>, <<>>, FALSE, fetch.error),
                    [state EXCEPT !.last_error = fetch.error], TRUE, queried,
                    refs, snap, <<>>)
       ELSE IF flt = "download"
       THEN Outcome(CheckResult("failure", <<>>, remote_sha, FALSE, "download_error"),
                    [state EXCEPT !.last_error = "download_error"], TRUE, queried,
                    refs, snap, <<remote_sha>>)
       ELSE IF flt \in {"refs_open", "refs_write"}
       THEN Outcome(CheckResult("failure", <<>>, remote_sha, FALSE, "write_error"),
                    [state EXCEPT !.last_error = "write_error"], TRUE, queried,
                    IF flt = "refs_open" THEN refs ELSE <<>>, got, <<remote_sha>>)
       ELSE Outcome(CheckResult("success", remote_sha, remote_sha, FALSE, "none"),
                    done, TRUE, queried, remote_sha \o <<"\n">>, got, <<remote_sha>>)

NoModelCall ==
    [op |-> "none", n |-> 0, force |-> FALSE, interval |-> 0, arg |-> <<>>, at |-> 0,
     fault |-> "none", before |-> state_defaults, refsBefore |-> <<>>,
     prev |-> [op |-> "none", status |-> "none", at |-> 0],
     out |-> Outcome(CheckResult("none", <<>>, <<>>, FALSE, "none"), state_defaults,
                     FALSE, FALSE, <<>>, <<>>, <<>>)]

NoCompare == [a |-> <<>>, b |-> <<>>, done |-> FALSE, newer |-> FALSE, newerPadded |-> FALSE]

UpdDefaults ==
    /\ modelState = state_defaults
    /\ refsMain = <<>>
    /\ snapshotName = <<>>
    /\ clock = 0
    /\ mres = NoModelCall

NoReturn == [set |-> FALSE, alive |-> FALSE, sha |-> <<>>, error |-> "none"]

FetchDefaults ==
    /\ fpc = "idle"
    /\ tpc = "unstarted"
    /\ fresult = [sha |-> <<>>, error |-> "none"]
    /\ fret = NoReturn
    /\ fanswer = [kind |-> "timeout", sha |-> <<>>]

NoFile == [exists |-> FALSE, written |-> "nothing", rec |-> state_defaults]

SaveDefaults ==
    /\ sv = [pc |-> "idle", arg |-> state_defaults, fault |-> "none", raised |-> FALSE,
             prev |-> NoFile]
    /\ tempFile = NoFile
    /\ stateFile = NoFile

UiDefaults ==
    /\ uipc = "none"
    /\ threads = <<>>
    /\ q = <<>>
    /\ worker_running = FALSE
    /\ retryEnabled = FALSE
    /\ putLog = <<>>
    /\ uiLaunches = <<>>

ModDefaults ==
    /\ vcmp = NoCompare
    /\ UpdDefaults
    /\ FetchDefaults
    /\ SaveDefaults
    /\ UiDefaults

Init ==
    /\ active \in ActiveInits
    /\ backup = NoDir
    /\ staging \in {NoDir, PartialTree("genuine")}
    /\ shared \in {"absent", "complete"}
    /\ payloadFile = "none"
    /\ entry \in {"main", "flow"}
    /\ performUpdate \in BOOLEAN
    /\ (entry = "main" => performUpdate)
    /\ body \in ManifestBodies
    /\ active0 = active
    /\ shared0 = shared
    /\ pc = "start"
    /\ spc = "idle"
    /\ fault = "none"
    /\ IdleDefaults
    /\ LogDefaults
    /\ InstallerDefaults
    /\ ModDefaults


(***************************************************************************)
(* app/updater.py: run_startup_update_flow                                 *)
(***************************************************************************)

\* finalize(action, error, manifest): the state record and the event log are
\* written and the decision is returned.
Finalize_log_skipped(action, error, lv, remote, msgs) ==
    /\ decision' = [action |-> action, error |-> error, messages |-> msgs]
    /\ UNCHANGED <<startupLog, logWrites>>
    /\ updateState' = [written |-> TRUE, local_version |-> lv, remote_version |-> remote,
                       action |-> action, error |-> error]
    /\ stateWrites' = stateWrites + 1
    /\ messages' = msgs
    /\ pc' = "flow_done"

Finalize(action, error, lv, remote, msgs) ==
    /\ decision' = [action |-> action, error |-> error, messages |-> msgs]
    /\ startupLog' = [written |-> TRUE, lines |-> msgs]
    /\ logWrites' = logWrites + 1
    /\ updateState' = [written |-> TRUE, local_version |-> lv, remote_version |-> remote,
                       action |-> action, error |-> error]
    /\ stateWrites' = stateWrites + 1
    /\ messages' = msgs
    /\ pc' = "flow_done"

\* The text of the "offline" event: it names the local version and the reason.
OfflineMessage(lv, exc) == Msg("offline", lv, exc.a)

\* Lines 236-260: read the local version, leave at once without a runtime.
FlowBegin ==
    /\ \/ pc = "start" /\ entry = "flow"
       \/ pc = "flow_begin"
    /\ LET lv == read_local_runtime_version(active)
       IN /\ local_version' = lv
          /\ IF ~runtime_installed(active)
             THEN Finalize("bootstrap_required", NoMsg, lv, <<>>,
                           <<Msg("no_runtime", <<>>, <<>>)>>)
             ELSE /\ messages' =
                        (IF normalize_compare_version(lv) # lv
                         THEN <<Msg("local_invalid", <<>>, <<>>)>> ELSE <<>>)
                        \o <<Msg("checking", <<>>, <<>>)>>
                  /\ pc' = "fetch"
                  /\ UNCHANGED <<decision, startupLog, updateState, logWrites, stateWrites>>
    /\ UNCHANGED <<fsVars, inVars, manifest, raised, mainVars, bootVars, ghostVars, swapVars, auxVars>>

\* Lines 261-267: fetch the manifest; only NetworkError is handled here.
FlowFetchManifest ==
    /\ pc = "fetch"
    /\ \E outcome \in TransportFailures \cup {"response"} :
         LET r == fetch_manifest(outcome, body)
         IN /\ fetched' = outcome
            /\ IF r.exc = "NetworkError"
               THEN /\ Finalize("launch_current", NoMsg, local_version, <<>>,
                                Append(messages, OfflineMessage(local_version, r.val)))
                    /\ UNCHANGED <<manifest, raised>>
               ELSE IF r.exc # "none"
               THEN /\ raised' = r.exc
                    /\ pc' = "flow_raised"
                    /\ UNCHANGED <<manifest, messages, decision, startupLog, updateState, logWrites, stateWrites>>
               ELSE /\ manifest' = r.val
                    /\ pc' = "validate"
                    /\ UNCHANGED <<raised, messages, decision, startupLog, updateState, logWrites, stateWrites>>
    /\ UNCHANGED <<fsVars, inVars, local_version, mainVars, bootVars, swapVars, auxVars>>
    /\ UNCHANGED <<downloads, served, extractions, installAttempted, installClean,
                   manifestVerdict, installExc>>

\* Lines 269-295: validate, compare versions, stop unless an update is due.
FlowValidate ==
    /\ pc = "validate"
    /\ LET v == validate_manifest(manifest)
           remote_version == Strip(manifest.fields.runtime_version.s)
           payload_sha == Lower(Strip(manifest.fields.payload_sha256.s))
           lcv == normalize_compare_version(local_version)
       IN /\ manifestVerdict' = (IF v.exc = "none" THEN "accepted" ELSE v.exc)
          /\ IF v.exc = "ManifestError"
             THEN /\ Finalize("launch_current", NoMsg, local_version, <<>>,
                              Append(messages, Msg("manifest_invalid", local_version, <<v.val.kind>>)))
                  /\ UNCHANGED raised
             ELSE IF is_remote_newer(lcv, remote_version).exc # "none"
             THEN /\ raised' = is_remote_newer(lcv, remote_version).exc
                  /\ pc' = "flow_raised"
                  /\ UNCHANGED <<messages, decision, startupLog, updateState, logWrites, stateWrites>>
             ELSE IF ~is_remote_newer(lcv, remote_version).val
             THEN /\ Finalize("launch_current", NoMsg, local_version, remote_version,
                              Append(messages, Msg("current", local_version, <<>>)))
                  /\ UNCHANGED raised
             ELSE IF ~performUpdate
             THEN /\ Finalize("update_required", NoMsg, local_version, remote_version,
                              Append(messages, Msg("update_available", local_version, remote_version)))
                  /\ UNCHANGED raised
             ELSE /\ messages' = messages \o <<Msg("update_available", local_version, remote_version),
                                               Msg("downloading", <<>>, <<>>)>>
                  /\ pc' = "download"
                  /\ UNCHANGED <<raised, decision, startupLog, updateState, logWrites, stateWrites>>
    /\ UNCHANGED <<fsVars, inVars, local_version, manifest, mainVars, bootVars, swapVars, auxVars>>
    /\ UNCHANGED <<downloads, served, fetched, extractions, installAttempted, installClean,
                   installExc>>

\* Lines 297-311: download to UPDATE_PAYLOAD_FILE and compare digests.
FlowDownload ==
    /\ pc = "download"
    /\ \E net \in NetOutcomes :
         LET remote_version == Strip(manifest.fields.runtime_version.s)
             r == download_payload_with_hash(Strip(manifest.fields.payload_url.s),
                                             Lower(Strip(manifest.fields.payload_sha256.s)),
                                             net)
         IN /\ payloadFile' = r.file
            /\ downloads' = downloads + 1
            /\ served' = net
            /\ IF r.exc = "NetworkError"
               THEN /\ Finalize("launch_current", NoMsg, local_version, remote_version,
                             Append(messages, Msg("download_unavailable", local_version, <<>>)))
                    /\ UNCHANGED raised
               ELSE IF r.exc = "IntegrityError"
               THEN /\ Finalize("launch_blocked", r.val, local_version, remote_version,
                             Append(messages, Msg("blocked", r.val.a, r.val.b)))
                    /\ UNCHANGED raised
               ELSE IF r.exc # "none"
               THEN /\ raised' = r.exc
                    /\ pc' = "flow_raised"
                    /\ UNCHANGED <<messages, decision, startupLog, updateState, logWrites, stateWrites>>
               ELSE /\ messages' = Append(messages, Msg("verified", <<>>, <<>>))
                    /\ pc' = "install"
                    /\ UNCHANGED <<raised, decision, startupLog, updateState, logWrites, stateWrites>>
    /\ UNCHANGED <<active, backup, staging, shared, inVars, local_version, manifest>>
    /\ UNCHANGED <<mainVars, bootVars, swapVars, auxVars>>
    /\ UNCHANGED <<fetched, extractions, installAttempted, installClean, manifestVerdict,
                   installExc>>

\* Lines 313-323: which except clause takes the exception raised by the
\* staged install; "none" when it returned, "raise" when no clause matches.
install_except_update_errors_only(exc) ==
    IF exc = "none" THEN "none"
    ELSE IF exc = "IntegrityError" THEN "launch_blocked"
    ELSE IF exc \in {"UpdateError", "RuntimeError"} THEN "launch_current"
    ELSE "raise"

install_except(exc) ==
    IF exc = "none" THEN "none"
    ELSE IF exc = "IntegrityError" THEN "launch_blocked"
    ELSE "launch_current"

EnvClean(env) ==
    /\ env.rename /\ env.copy /\ env.tarOk
    /\ env.brew = "ok" /\ env.failStep = 0 /\ env.fault = "none"

\* Lines 312-331: staged install and swap, then the terminal decision.
FlowInstall ==
    /\ pc = "install"
    /\ \E env \in InstallEnvs :
         LET remote_version == Strip(manifest.fields.runtime_version.s)
             r == install_runtime_from_payload(FS, payloadFile, remote_version, env)
         IN /\ SetFS(r.fs)
            /\ installAttempted' = TRUE
            /\ installClean' = EnvClean(env)
            /\ extractions' =
                  IF r.extracted
                  THEN extractions \cup
                       {[flow |-> "update", bytes |-> payloadFile,
                         expected |-> Lower(Strip(manifest.fields.payload_sha256.s))]}
                  ELSE extractions
            /\ installExc' = r.exc
            /\ LET handled == install_except(r.exc)
               IN IF handled = "launch_blocked"
                  THEN /\ Finalize("launch_blocked", r.val, local_version, remote_version,
                                   Append(messages, Msg("blocked", <<>>, <<>>)))
                       /\ UNCHANGED <<payloadFile, raised>>
                  ELSE IF handled = "launch_current"
                  THEN /\ Finalize("launch_current", NoMsg, local_version, remote_version,
                                   Append(messages, Msg("update_failed", local_version, <<r.exc>>)))
                       /\ UNCHANGED <<payloadFile, raised>>
                  ELSE IF handled = "raise"
                  THEN /\ raised' = r.exc
                       /\ pc' = "flow_raised"
                       /\ UNCHANGED <<payloadFile, messages, decision, startupLog, updateState,
                                      logWrites, stateWrites>>
                  ELSE /\ Finalize("updated_and_launch", NoMsg, local_version, remote_version,
                                   Append(messages, Msg("applied", remote_version, <<>>)))
                       /\ payloadFile' = "none"
                       /\ UNCHANGED raised
    /\ UNCHANGED <<inVars, local_version, manifest, mainVars, bootVars, swapVars, auxVars>>
    /\ UNCHANGED <<downloads, served, fetched, manifestVerdict>>

(***************************************************************************)
(* app/entrypoint.py: main                                                 *)
(***************************************************************************)

\* Lines 63-68
MainStart ==
    /\ pc = "start"
    /\ entry = "main"
    /\ IF ~runtime_installed(active)
       THEN pc' = "bootstrap" /\ wpc' = "deps"
       ELSE pc' = "flow_begin" /\ UNCHANGED wpc
    /\ UNCHANGED <<fsVars, inVars, flowVars, mainVars, bootPayload, bootResult, ghostVars, swapVars, auxVars>>

\* Lines 69-82
MainDispatch ==
    /\ pc = "flow_done"
    /\ entry = "main"
    /\ LET o == main_after_decision(decision.action, active)
       IN /\ launched' = IF o.launch THEN active ELSE launched
          /\ uiShown' = o.shown
          /\ IF o.bootstrap
             THEN pc' = "bootstrap" /\ wpc' = "deps" /\ UNCHANGED exitCode
             ELSE pc' = "main_done" /\ exitCode' = o.exit /\ UNCHANGED wpc
    /\ UNCHANGED <<fsVars, inVars, flowVars, bootPayload, bootResult, ghostVars, swapVars, auxVars>>

\* An exception that leaves run_startup_update_flow leaves main() too.
MainRaised ==
    /\ pc = "flow_raised"
    /\ entry = "main"
    /\ pc' = "main_done"
    /\ exitCode' = "traceback"
    /\ UNCHANGED <<fsVars, inVars, flowVars, launched, uiShown, bootVars, ghostVars, swapVars, auxVars>>

(***************************************************************************)
(* app/bootstrap.py: the first-install worker                              *)
(***************************************************************************)

WorkerEnds(result) == wpc' = "done" /\ bootResult' = result

\* Lines 545-548
WorkerSystemDeps ==
    /\ pc = "bootstrap"
    /\ wpc = "deps"
    /\ \E brew \in {"ok", "missing", "fail"} :
         LET r == ensure_system_deps(brew)
         IN IF r.exc = "none" THEN wpc' = "download" /\ UNCHANGED bootResult
            ELSE IF r.val.kind = "BREW_MISSING" THEN WorkerEnds("brew_missing")
            ELSE WorkerEnds("error")
    /\ UNCHANGED <<fsVars, inVars, pc, flowVars, mainVars, bootPayload, ghostVars, swapVars, auxVars>>

\* Lines 550-552
WorkerDownload ==
    /\ pc = "bootstrap"
    /\ wpc = "download"
    /\ \E net \in NetOutcomes :
         IF net.ok
         THEN bootPayload' = net.bytes /\ wpc' = "extract" /\ UNCHANGED bootResult
         ELSE /\ bootPayload' = (IF net.partial THEN "partial" ELSE bootPayload)
              /\ WorkerEnds("error")
    /\ UNCHANGED <<fsVars, inVars, pc, flowVars, mainVars, ghostVars, swapVars, auxVars>>

\* Lines 553-556: the archive is unpacked straight into RUNTIME_DIR.
WorkerExtract ==
    /\ pc = "bootstrap"
    /\ wpc = "extract"
    /\ \E tarOk \in BOOLEAN :
         LET tar == extract_tar(bootPayload, tarOk)
         IN /\ active' = tar.dir
            /\ extractions' = extractions \cup
                  {[flow |-> "bootstrap", bytes |-> bootPayload, expected |-> <<>>]}
            /\ IF tar.exc # "none" THEN WorkerEnds("error")
               ELSE IF chmod_runtime_bin(0).exc # "none" THEN WorkerEnds("error")
               ELSE wpc' = "install" /\ UNCHANGED bootResult
    /\ UNCHANGED <<backup, staging, shared, payloadFile, inVars, pc, flowVars, mainVars>>
    /\ UNCHANGED <<bootPayload, swapVars, auxVars>>
    /\ UNCHANGED <<downloads, served, fetched, installAttempted, installClean,
                   manifestVerdict, installExc>>

\* Lines 557-577
WorkerInstall ==
    /\ pc = "bootstrap"
    /\ wpc = "install"
    /\ \E failStep \in 0..InstallerSteps :
         LET r == install_runtime({}, active, failStep)
         IN /\ active' = r.dir
            /\ IF r.exc # "none" THEN WorkerEnds("error") ELSE WorkerEnds("launch")
    /\ UNCHANGED <<backup, staging, shared, payloadFile, inVars, pc, flowVars, mainVars>>
    /\ UNCHANGED <<bootPayload, ghostVars, swapVars, auxVars>>

\* run_bootstrap_ui() returns and main() returns 0.
BootstrapReturn ==
    /\ pc = "bootstrap"
    /\ wpc = "done"
    /\ pc' = "main_done"
    /\ exitCode' = 0
    /\ UNCHANGED <<fsVars, inVars, flowVars, launched, uiShown, bootVars, ghostVars, swapVars, auxVars>>

Next ==
    \/ MainStart
    \/ FlowBegin
    \/ FlowFetchManifest
    \/ FlowValidate
    \/ FlowDownload
    \/ FlowInstall
    \/ MainDispatch
    \/ MainRaised
    \/ WorkerSystemDeps
    \/ WorkerDownload
    \/ WorkerExtract
    \/ WorkerInstall
    \/ BootstrapReturn

Spec == Init /\ [][Next]_vars

(***************************************************************************)
(* atomic_swap_runtime, one filesystem operation at a time.  The process   *)
(* may be killed between any two operations.  One operation at most fails  *)
(* per call (fault); the rename back from the backup slot, which undoes a  *)
(* rename that has just succeeded in the same directory, does not.         *)
(***************************************************************************)

StagedInits ==
    {[InstalledDir("new", v, FALSE) EXCEPT !.hasVersion = h, !.versionText = IF h THEN v ELSE <<>>] :
        v \in {V019, V02}, h \in BOOLEAN}
    \cup {NoDir}

SwapInit ==
    /\ active \in {NoDir} \cup {InstalledDir("old", t, c) : t \in {V015, Vbad}, c \in BOOLEAN}
    /\ backup \in {NoDir, InstalledDir("stale", V015, FALSE)}
    /\ staging \in StagedInits
    /\ shared = "complete"
    /\ payloadFile = "genuine"
    /\ entry = "swap"
    /\ performUpdate = TRUE
    /\ body = BodyNotJson
    /\ active0 = active
    /\ shared0 = shared
    /\ pc = "swap"
    /\ spc = "rm_old_backup"
    /\ fault \in SwapFaults
    /\ IdleDefaults
    /\ LogDefaults
    /\ InstallerDefaults
    /\ ModDefaults

SwapFrame ==
    UNCHANGED <<payloadFile, inVars, pc, flowVars, mainVars, bootVars, ghostVars, fault, auxVars>>

\* Lines 218-220
SwapStepRmOldBackup ==
    /\ spc = "rm_old_backup"
    /\ IF backup.exists /\ fault = "rm_old_backup"
       THEN /\ spc' = "raised"
            /\ swapFailedAt' = "rm_old_backup"
            /\ UNCHANGED <<active, backup, staging, shared>>
       ELSE /\ SetFS(SwapRmBackup(FS))
            /\ spc' = "move_active"
            /\ UNCHANGED swapFailedAt
    /\ SwapFrame

\* Lines 222-223
SwapStepMoveActive ==
    /\ spc = "move_active"
    /\ IF active.exists /\ fault = "move_active"
       THEN /\ spc' = "raised"
            /\ swapFailedAt' = "move_active"
            /\ UNCHANGED <<active, backup, staging, shared>>
       ELSE /\ SetFS(SwapMoveActive(FS))
            /\ spc' = "move_staging"
            /\ UNCHANGED swapFailedAt
    /\ SwapFrame

\* Lines 225-227
SwapStepMoveStaging ==
    /\ spc = "move_staging"
    /\ IF SwapCanMoveStaging(FS, fault)
       THEN /\ SetFS(SwapMoveStaging(FS))
            /\ spc' = "rm_backup"
            /\ UNCHANGED swapFailedAt
       ELSE /\ spc' = "restore"
            /\ swapFailedAt' = "move_staging"
            /\ UNCHANGED <<active, backup, staging, shared>>
    /\ SwapFrame

\* Lines 228-230
SwapStepRestore ==
    /\ spc = "restore"
    /\ SetFS(SwapRestore(FS))
    /\ spc' = "raised"
    /\ UNCHANGED swapFailedAt
    /\ SwapFrame

\* Lines 232-233
SwapStepRmBackup ==
    /\ spc = "rm_backup"
    /\ IF backup.exists /\ fault = "rm_backup"
       THEN /\ spc' = "raised"
            /\ swapFailedAt' = "rm_backup"
            /\ UNCHANGED <<active, backup, staging, shared>>
       ELSE /\ SetFS(SwapRmBackup(FS))
            /\ spc' = "returned"
            /\ UNCHANGED swapFailedAt
    /\ SwapFrame

SwapRunning == spc \in {"rm_old_backup", "move_active", "move_staging", "restore", "rm_backup"}

\* The process dies between two filesystem operations.
SwapCrash ==
    /\ SwapRunning
    /\ spc' = "crashed"
    /\ UNCHANGED <<active, backup, staging, shared, swapFailedAt>>
    /\ SwapFrame

SwapNext ==
    \/ SwapStepRmOldBackup
    \/ SwapStepMoveActive
    \/ SwapStepMoveStaging
    \/ SwapStepRestore
    \/ SwapStepRmBackup
    \/ SwapCrash

SwapSpec == SwapInit /\ [][SwapNext]_vars

(***************************************************************************)
(* src/mac_app_modern.py: the startup event log across launches            *)
(***************************************************************************)

MaxLaunches == 3

NonBlank(m) == m # NoMsg

\* load_startup_update_log(): nothing without the file; otherwise the
\* non-empty messages of its lines, and the file is unlinked.
load_startup_update_log(log) ==
    IF ~log.written
    THEN [messages |-> <<>>, file |-> log]
    ELSE [messages |-> SelectSeq(log.lines, NonBlank), file |-> NoLog]

\* The launch whose flow wrote the log file now on disk, 0 without a file.
LogOwner ==
    IF ~startupLog.written THEN 0
    ELSE IF logWrites > 0 THEN launchNo
    ELSE pendingOwner

\* The launches whose flow has written the log so far.
Written == writers \cup (IF logWrites > 0 THEN {launchNo} ELSE {})

LogBodies ==
    {BodyObject(FStr(V02), FStr(Url_https), FStr(HexA)),
     BodyObject(FStr(V015), FStr(Url_https), FStr(HexA)),
     BodyNotJson}

LogInit ==
    /\ active \in {InstalledDir("old", V015, c) : c \in BOOLEAN}
    /\ backup = NoDir
    /\ staging = NoDir
    /\ shared = "absent"
    /\ payloadFile = "none"
    /\ entry = "main"
    /\ performUpdate = TRUE
    /\ body \in LogBodies
    /\ active0 = active
    /\ shared0 = shared
    /\ pc = "start"
    /\ spc = "idle"
    /\ fault = "none"
    /\ IdleDefaults
    /\ LogDefaults
    /\ InstallerDefaults
    /\ ModDefaults

\* TranscriptProcessorApp.__init__ in the process launch_real_app started:
\* without an API key or a processor the window is destroyed before the log
\* is looked at; otherwise load_startup_update_log runs.
AppInit ==
    /\ pc = "main_done"
    /\ launched.exists
    /\ appPc = "none"
    /\ \E ready \in BOOLEAN :
         IF ready
         THEN LET r == load_startup_update_log(startupLog)
              IN /\ startupLog' = r.file
                 /\ shownIds' = IF r.messages # <<>>
                                THEN Append(shownIds, LogOwner) ELSE shownIds
                 /\ appPc' = "running"
         ELSE /\ appPc' = "closed"
              /\ UNCHANGED <<startupLog, shownIds>>
    /\ UNCHANGED <<fsVars, inVars, pc, local_version, messages, manifest, decision, raised,
                   updateState, logWrites, stateWrites>>
    /\ UNCHANGED <<mainVars, bootVars, ghostVars, swapVars, launchNo, pendingOwner, writers,
                   instVars, modVars>>

\* The user starts the bootstrapper again: a new process, the same files.
Relaunch ==
    /\ pc \in {"main_done", "bootstrap"}
    /\ launchNo < MaxLaunches
    /\ launched.exists => appPc # "none"
    /\ pc' = "start"
    /\ launchNo' = launchNo + 1
    /\ pendingOwner' = LogOwner
    /\ writers' = Written
    /\ appPc' = "none"
    /\ active0' = active
    /\ shared0' = shared
    /\ local_version' = <<>>
    /\ messages' = <<>>
    /\ manifest' = BodyNotJson
    /\ decision' = NoDecision
    /\ raised' = "none"
    /\ logWrites' = 0
    /\ stateWrites' = 0
    /\ launched' = NoDir
    /\ uiShown' = FALSE
    /\ exitCode' = "none"
    /\ wpc' = "idle"
    /\ downloads' = 0
    /\ served' = NoNet
    /\ fetched' = "none"
    /\ extractions' = {}
    /\ installAttempted' = FALSE
    /\ installClean' = FALSE
    /\ manifestVerdict' = "none"
    /\ installExc' = "none"
    /\ UNCHANGED <<fsVars, entry, performUpdate, body, startupLog, updateState>>
    /\ UNCHANGED <<bootPayload, bootResult, swapVars, shownIds, instVars, modVars>>

LogNext ==
    \/ MainStart
    \/ FlowBegin
    \/ FlowFetchManifest
    \/ FlowValidate
    \/ FlowDownload
    \/ FlowInstall
    \/ MainDispatch
    \/ MainRaised
    \/ AppInit
    \/ Relaunch

LogSpec == LogInit /\ [][LogNext]_vars

(***************************************************************************)
(* app/runtime_installer.py: main, one sub-step at a time, as started by   *)
(* bootstrap._install_runtime on RUNTIME_DIR                               *)
(***************************************************************************)

\* subprocess.run(..., check=True): a non-zero exit raises.
run_check_unchecked(ok) == "none"

run_check(ok) == IF ok THEN "none" ELSE "CalledProcessError"

\* What sub-step n leaves in the runtime directory: step 1 creates the venv,
\* step 4 creates models/huggingface before its process starts.
installer_step(dir, n, ok) ==
    IF n = 1 THEN [dir EXCEPT !.venv = ok]
    ELSE IF n = InstallerSteps THEN [dir EXCEPT !.legacyCache = TRUE]
    ELSE dir

InstallerArgvs ==
    {InstallerOptions, InstallRuntimeArgv, {"--runtime-dir"}, {}}

InstallerInit ==
    /\ active \in {[ExtractedTree(b) EXCEPT !.venv = v, !.legacyCache = c] :
                      b \in Payloads, v \in BOOLEAN, c \in BOOLEAN}
    /\ backup = NoDir
    /\ staging = NoDir
    /\ shared = "absent"
    /\ payloadFile = "none"
    /\ entry = "installer"
    /\ performUpdate = TRUE
    /\ body = BodyNotJson
    /\ active0 = active
    /\ shared0 = shared
    /\ pc = "installer"
    /\ spc = "idle"
    /\ fault = "none"
    /\ IdleDefaults
    /\ LogDefaults
    /\ ModDefaults
    /\ ipc = "args"
    /\ iargv \in InstallerArgvs
    /\ stepsRun = <<>>
    /\ failedStep = 0

InstallerFrame ==
    UNCHANGED <<backup, staging, shared, payloadFile, inVars, pc, local_version, messages,
                manifest, decision, startupLog, updateState, logWrites, stateWrites,
                launched, uiShown, bootVars, ghostVars, swapVars, logVars, iargv, modVars>>

\* Lines 15-18: parse_args() exits with status 2 on an unknown or missing option.
InstallerParseArgs ==
    /\ ipc = "args"
    /\ IF iargv # InstallerOptions
       THEN ipc' = "exited" /\ exitCode' = 2
       ELSE ipc' = "steps" /\ UNCHANGED exitCode
    /\ UNCHANGED <<active, raised, stepsRun, failedStep>>
    /\ InstallerFrame

\* Lines 33-165: the next sub-step runs; a failing one ends the installer.
InstallerRunStep ==
    /\ ipc = "steps"
    /\ Len(stepsRun) < InstallerSteps
    /\ \E ok \in BOOLEAN :
         LET n == Len(stepsRun) + 1
         IN /\ stepsRun' = Append(stepsRun, n)
            /\ active' = installer_step(active, n, ok)
            /\ failedStep' = IF ~ok /\ failedStep = 0 THEN n ELSE failedStep
            /\ IF run_check(ok) # "none"
               THEN ipc' = "exited" /\ exitCode' = 1
               ELSE /\ ipc' = IF n = InstallerSteps THEN "mark" ELSE "steps"
                    /\ UNCHANGED exitCode
    /\ UNCHANGED raised
    /\ InstallerFrame

\* Lines 167-169: marker.write_text("ok"); return 0
InstallerMark ==
    /\ ipc = "mark"
    /\ active' = [active EXCEPT !.installed = TRUE]
    /\ ipc' = "exited"
    /\ exitCode' = 0
    /\ UNCHANGED <<raised, stepsRun, failedStep>>
    /\ InstallerFrame

\* bootstrap._install_runtime, lines 282-284: a non-zero status raises.
InstallRuntimeWait ==
    /\ ipc = "exited"
    /\ ipc' = "returned"
    /\ raised' = IF exitCode # 0 THEN "RuntimeError" ELSE "none"
    /\ UNCHANGED <<active, exitCode, stepsRun, failedStep>>
    /\ InstallerFrame

InstallerNext ==
    \/ InstallerParseArgs
    \/ InstallerRunStep
    \/ InstallerMark
    \/ InstallRuntimeWait

InstallerSpec == InstallerInit /\ [][InstallerNext]_vars

(***************************************************************************)
(* app/runtime.py: is_remote_newer on pairs of valid version strings       *)
(***************************************************************************)

VersionTexts ==
    {T_000, V015, V019, V0190, V02, V010,
     <<"0">>, <<"1">>, <<"1", ".", "0">>, <<"1", "0">>, <<"0", ".", "0", ".", "0", ".", "1">>}

VersionInit ==
    /\ active = NoDir
    /\ backup = NoDir
    /\ staging = NoDir
    /\ shared = "absent"
    /\ payloadFile = "none"
    /\ entry = "is_remote_newer"
    /\ performUpdate = TRUE
    /\ body = BodyNotJson
    /\ active0 = active
    /\ shared0 = shared
    /\ pc = "compare"
    /\ spc = "idle"
    /\ fault = "none"
    /\ IdleDefaults
    /\ LogDefaults
    /\ InstallerDefaults
    /\ \E a \in VersionTexts, b \in VersionTexts : vcmp = [NoCompare EXCEPT !.a = a, !.b = b]
    /\ UpdDefaults
    /\ FetchDefaults
    /\ SaveDefaults
    /\ UiDefaults

\* is_remote_newer(a, b) and is_remote_newer(a + ".0", b)
VersionCompare ==
    /\ pc = "compare"
    /\ ~vcmp.done
    /\ vcmp' = [vcmp EXCEPT !.done = TRUE,
                            !.newer = is_remote_newer(vcmp.a, vcmp.b).val,
                            !.newerPadded =
                                is_remote_newer(vcmp.a \o <<".", "0">>, vcmp.b).val]
    /\ pc' = "compared"
    /\ UNCHANGED <<fsVars, inVars, flowVars, mainVars, bootVars, ghostVars, swapVars,
                   logVars, instVars, updVars, fetchVars, saveVars, uiVars>>

VersionSpec == VersionInit /\ [][VersionCompare]_vars

(***************************************************************************)
(* src/model_update.py: calls of check_for_update, mark_deferred and       *)
(* apply_update against one state file and one model cache                 *)
(***************************************************************************)

MaxClock == 1
MaxCalls == 2

\* The launcher's own variables while another module is exercised.
LauncherIdle(e, p) ==
    /\ active = NoDir
    /\ backup = NoDir
    /\ staging = NoDir
    /\ shared = "absent"
    /\ payloadFile = "none"
    /\ entry = e
    /\ performUpdate = TRUE
    /\ body = BodyNotJson
    /\ active0 = active
    /\ shared0 = shared
    /\ pc = p
    /\ spc = "idle"
    /\ fault = "none"
    /\ IdleDefaults
    /\ LogDefaults
    /\ InstallerDefaults

launcherVars == <<fsVars, inVars, pc, flowVars, mainVars, bootVars, ghostVars, swapVars,
                  logVars, instVars>>

ArgShas == {<<>>, ShaB, BranchMain}

ModelInit ==
    /\ LauncherIdle("model_update", "idle")
    /\ vcmp = NoCompare
    /\ FetchDefaults
    /\ SaveDefaults
    /\ UiDefaults
    /\ \E lc \in {<<>>, iso_now(0), IsoGarbage},
          lr \in {<<>>, ShaB, ShaShort},
          li \in {<<>>, ShaA} :
          modelState = [state_defaults EXCEPT !.last_check_at = lc,
                                              !.last_remote_sha = lr,
                                              !.last_installed_sha = li]
    /\ \E cache \in {<<<<>>, <<>>>>, <<ShaA \o <<"\n">>, ShaA>>, <<BranchMain, ShaA>>,
                      <<BranchMain, <<>>>>} :
          refsMain = cache[1] /\ snapshotName = cache[2]
    /\ clock = 0
    /\ mres = NoModelCall

\* One call: what it was given, what it found, what it returned and left.
Called(op, force, interval, arg, flt, out) ==
    /\ mres' = [op |-> op, n |-> mres.n + 1, force |-> force, interval |-> interval,
                arg |-> arg, at |-> clock, fault |-> flt, before |-> modelState,
                refsBefore |-> refsMain,
                prev |-> [op |-> mres.op, status |-> mres.out.res.status, at |-> mres.at],
                out |-> out]
    /\ modelState' = IF out.saved THEN out.state ELSE modelState
    /\ refsMain' = out.refs
    /\ snapshotName' = out.snap
    /\ UNCHANGED <<clock, vcmp, saveVars, uiVars, launcherVars>>

CheckForUpdate ==
    \E force \in BOOLEAN, interval \in {1, 2}, answer \in RegistryAnswers :
        /\ mres.n < MaxCalls
        /\ Called("check", force, interval, <<>>, "none",
                  check_for_update(modelState, refsMain, snapshotName, clock, interval,
                                   force, fetch_remote_model_sha(answer)))
        /\ UNCHANGED fetchVars

MarkDeferred ==
    \E remote_sha \in ArgShas :
        /\ mres.n < MaxCalls
        /\ Called("defer", FALSE, 0, remote_sha, "none",
                  mark_deferred(modelState, refsMain, snapshotName, clock, remote_sha))
        /\ UNCHANGED fetchVars

ApplyUpdate ==
    \E remote_sha \in ArgShas, flt \in ApplyFaults :
    \* the registry is asked only when the caller names no revision
    \E answer \in IF remote_sha = <<>> THEN RegistryAnswers
                  ELSE {[kind |-> "timeout", sha |-> <<>>]} :
        /\ mres.n < MaxCalls
        /\ Called("apply", FALSE, 0, remote_sha, flt,
                  apply_update(modelState, refsMain, snapshotName, clock, remote_sha,
                               fetch_remote_model_sha(answer), flt))
        /\ UNCHANGED fetchVars

Tick ==
    /\ clock < MaxClock
    /\ clock' = clock + 1
    /\ UNCHANGED <<modelState, refsMain, snapshotName, mres, vcmp, fetchVars, saveVars,
                   uiVars, launcherVars>>

ModelNext == CheckForUpdate \/ MarkDeferred \/ ApplyUpdate \/ Tick

ModelSpec == ModelInit /\ [][ModelNext]_vars

(***************************************************************************)
(* src/model_update.py: _fetch_remote_model_sha, the calling thread and    *)
(* its daemon _worker thread step by step, inside a forced                 *)
(* check_for_update                                                        *)
(***************************************************************************)

FetchInit ==
    /\ LauncherIdle("check_for_update", "idle")
    /\ vcmp = NoCompare
    /\ SaveDefaults
    /\ UiDefaults
    /\ \E stored \in {state_defaults,
                      [state_defaults EXCEPT !.last_check_at = iso_now(0),
                                             !.last_remote_sha = ShaA,
                                             !.last_installed_sha = ShaA]} :
          modelState = stored
    /\ refsMain \in {<<>>, ShaA \o <<"\n">>}
    /\ snapshotName = <<>>
    /\ clock = 1
    /\ mres = NoModelCall
    /\ fpc = "start"
    /\ tpc = "unstarted"
    /\ fresult = [sha |-> <<>>, error |-> "none"]
    /\ fret = NoReturn
    /\ fanswer \in RegistryAnswers

FetchFrame == UNCHANGED <<vcmp, updVars, saveVars, uiVars, launcherVars>>

\* threading.Thread(target=_worker, daemon=True); thread.start()
FetchStart ==
    /\ fpc = "start"
    /\ fpc' = "join"
    /\ tpc' = "query"
    /\ UNCHANGED <<fresult, fret, fanswer>>
    /\ FetchFrame

\* HfApi().model_info(repo_id) comes back, with an answer or an exception; a
\* query that hangs never takes this step.
ThreadQuery ==
    /\ tpc = "query"
    /\ fanswer.kind # "timeout"
    /\ tpc' = IF fanswer.kind = "error" THEN "except" ELSE "got"
    /\ UNCHANGED <<fpc, fresult, fret, fanswer>>
    /\ FetchFrame

\* result["sha"] = sha if _is_valid_sha(sha) else None
ThreadSetSha ==
    /\ tpc = "got"
    /\ fresult' = [fresult EXCEPT !.sha = IF is_valid_sha(fanswer.sha) THEN fanswer.sha
                                          ELSE <<>>]
    /\ tpc' = IF is_valid_sha(fanswer.sha) THEN "done" ELSE "no_sha"
    /\ UNCHANGED <<fpc, fret, fanswer>>
    /\ FetchFrame

\* result["error"] = ..., in the `if not result["sha"]` branch or the handler
ThreadSetError ==
    /\ tpc \in {"no_sha", "except"}
    /\ fresult' = [fresult EXCEPT !.error = IF tpc = "except" THEN "registry_error"
                                            ELSE "invalid_remote_sha"]
    /\ tpc' = "done"
    /\ UNCHANGED <<fpc, fret, fanswer>>
    /\ FetchFrame

FetchJoin_without_timeout ==
    /\ fpc = "join"
    /\ tpc = "done"
    /\ fpc' = "alive_check"
    /\ UNCHANGED <<tpc, fresult, fret, fanswer>>
    /\ FetchFrame

\* thread.join(timeout=timeout_s) returns: the thread ended or the time is up.
FetchJoin ==
    /\ fpc = "join"
    /\ fpc' = "alive_check"
    /\ UNCHANGED <<tpc, fresult, fret, fanswer>>
    /\ FetchFrame

\* if thread.is_alive(): return None, "timeout after ..."; else the result
FetchReturn ==
    /\ fpc = "alive_check"
    /\ fret' = IF tpc # "done"
               THEN [set |-> TRUE, alive |-> TRUE, sha |-> <<>>, error |-> "timeout"]
               ELSE [set |-> TRUE, alive |-> FALSE, sha |-> fresult.sha,
                     error |-> fresult.error]
    /\ fpc' = "returned"
    /\ UNCHANGED <<tpc, fresult, fanswer>>
    /\ FetchFrame

\* check_for_update(force=True) goes on with the returned pair and saves.
FetchPersist ==
    /\ fpc = "returned"
    /\ fpc' = "persisted"
    /\ Called("check", TRUE, 1, <<>>, "none",
              check_for_update(modelState, refsMain, snapshotName, clock, 1, TRUE,
                               [sha |-> fret.sha, error |-> fret.error]))
    /\ UNCHANGED <<tpc, fresult, fret, fanswer>>

FetchNext ==
    \/ FetchStart
    \/ ThreadQuery
    \/ ThreadSetSha
    \/ ThreadSetError
    \/ FetchJoin
    \/ FetchReturn
    \/ FetchPersist

FetchSpec == FetchInit /\ [][FetchNext]_vars

\* The calling thread is the one that runs: join() returns at the latest when
\* timeout_s is over, and what follows waits for nothing.  The worker thread
\* gets no such promise.
FetchLiveSpec ==
    FetchSpec /\ WF_vars(FetchStart \/ FetchJoin \/ FetchReturn \/ FetchPersist)

(***************************************************************************)
(* src/model_update.py: save_state statement by statement, with one        *)
(* filesystem call that may fail                                           *)
(***************************************************************************)

StateKeys ==
    {"last_check_at", "last_remote_sha", "last_installed_sha", "deferred_sha", "last_error"}

\* payload = _state_defaults(); payload.update(state)
save_payload(state) ==
    [k \in StateKeys \cup DOMAIN state |->
        IF k \in DOMAIN state THEN state[k] ELSE state_defaults[k]]

StoredRecord ==
    [state_defaults EXCEPT !.last_check_at = iso_now(0), !.last_remote_sha = ShaA,
                           !.last_installed_sha = ShaA]

\* The dicts handed to save_state: a loaded state with one field changed, a
\* dict with a single key, an empty dict.
SaveArgs ==
    {[StoredRecord EXCEPT !.last_remote_sha = ShaB],
     [k \in {"last_error"} |-> "timeout"],
     [k \in {} |-> "none"]}

SaveFaults == {"none", "mkdir", "mkstemp", "open", "dump", "flush", "replace"}

SaveInit ==
    /\ LauncherIdle("save_state", "idle")
    /\ vcmp = NoCompare
    /\ UpdDefaults
    /\ FetchDefaults
    /\ UiDefaults
    /\ stateFile \in {NoFile, [exists |-> TRUE, written |-> "all", rec |-> StoredRecord]}
    /\ tempFile = NoFile
    /\ \E arg \in SaveArgs, flt \in SaveFaults :
          sv = [pc |-> "mkdir", arg |-> arg, fault |-> flt, raised |-> FALSE,
                prev |-> stateFile]

SaveFrame == UNCHANGED <<vcmp, updVars, fetchVars, uiVars, launcherVars>>

\* Lines 83-86, before the try: an exception here leaves save_state at once.
SaveCreateTemp ==
    /\ sv.pc \in {"mkdir", "mkstemp"}
    /\ IF sv.fault = sv.pc
       THEN sv' = [sv EXCEPT !.pc = "raised", !.raised = TRUE] /\ UNCHANGED tempFile
       ELSE IF sv.pc = "mkdir"
       THEN sv' = [sv EXCEPT !.pc = "mkstemp"] /\ UNCHANGED tempFile
       ELSE /\ sv' = [sv EXCEPT !.pc = "open"]
            /\ tempFile' = [exists |-> TRUE, written |-> "nothing", rec |-> state_defaults]
    /\ UNCHANGED stateFile
    /\ SaveFrame

\* Lines 88-90: open, json.dump, flush.  What json.dump has written is on
\* disk in part until the flush.
SaveWrite ==
    /\ sv.pc \in {"open", "dump", "flush"}
    /\ IF sv.fault = sv.pc
       THEN /\ sv' = [sv EXCEPT !.pc = "finally", !.raised = TRUE]
            /\ tempFile' = IF sv.pc = "open" THEN tempFile
                           ELSE [tempFile EXCEPT !.written = "partial"]
       ELSE IF sv.pc = "open"
       THEN sv' = [sv EXCEPT !.pc = "dump"] /\ UNCHANGED tempFile
       ELSE IF sv.pc = "dump"
       THEN /\ sv' = [sv EXCEPT !.pc = "flush"]
            /\ tempFile' = [tempFile EXCEPT !.written = "partial",
                                            !.rec = save_payload(sv.arg)]
       ELSE /\ sv' = [sv EXCEPT !.pc = "replace"]
            /\ tempFile' = [tempFile EXCEPT !.written = "all"]
    /\ UNCHANGED stateFile
    /\ SaveFrame

\* Line 91: Path(temp_path).replace(state_path)
SaveReplace ==
    /\ sv.pc = "replace"
    /\ IF sv.fault = "replace"
       THEN sv' = [sv EXCEPT !.pc = "finally", !.raised = TRUE]
            /\ UNCHANGED <<tempFile, stateFile>>
       ELSE /\ sv' = [sv EXCEPT !.pc = "finally"]
            /\ stateFile' = tempFile
            /\ tempFile' = NoFile
    /\ SaveFrame

SaveFinally_without_unlink ==
    /\ sv.pc = "finally"
    /\ sv' = [sv EXCEPT !.pc = IF sv.raised THEN "raised" ELSE "returned"]
    /\ UNCHANGED <<tempFile, stateFile>>
    /\ SaveFrame

\* Lines 92-95: if leftover.exists(): leftover.unlink(missing_ok=True)
SaveFinally ==
    /\ sv.pc = "finally"
    /\ sv' = [sv EXCEPT !.pc = IF sv.raised THEN "raised" ELSE "returned"]
    /\ tempFile' = IF tempFile.exists THEN NoFile ELSE tempFile
    /\ UNCHANGED stateFile
    /\ SaveFrame

SaveNext == SaveCreateTemp \/ SaveWrite \/ SaveReplace \/ SaveFinally

SaveSpec == SaveInit /\ [][SaveNext]_vars

(***************************************************************************)
(* app/bootstrap.py: run_bootstrap_ui, the Tk thread (start_worker, Retry  *)
(* clicks, poll) and the worker threads it starts, step by step            *)
(*                                                                         *)
(* Tk runs one callback at a time; the message boxes shown inside poll are *)
(* modal, so no click reaches the window while poll is running.            *)
(***************************************************************************)

MaxWorkers == 2

TerminalKinds == {"launch", "error", "brew_missing"}

BootUiInit ==
    /\ LauncherIdle("run_bootstrap_ui", "idle")
    /\ vcmp = NoCompare
    /\ UpdDefaults
    /\ FetchDefaults
    /\ SaveDefaults
    /\ uipc = "setup"
    /\ threads = <<>>
    /\ q = <<>>
    /\ worker_running = FALSE
    /\ retryEnabled = FALSE
    /\ putLog = <<>>
    /\ uiLaunches = <<>>

BootUiFrame == UNCHANGED <<vcmp, updVars, fetchVars, saveVars, launcherVars>>

\* Thread i was started and the process is still there.
Runs(i) == i \in DOMAIN threads /\ uipc # "exited"

Put(w, kind) == q' = Append(q, [w |-> w, kind |-> kind])

Logged(w, kinds) == putLog' = putLog \o [i \in 1..Len(kinds) |-> [w |-> w, kind |-> kinds[i]]]

start_worker_unguarded ==
    /\ retryEnabled' = FALSE
    /\ threads' = Append(threads, "new")

\* Lines 928-940
start_worker ==
    IF worker_running
    THEN UNCHANGED <<retryEnabled, threads>>
    ELSE /\ retryEnabled' = FALSE
         /\ threads' = Append(threads, "new")

\* Line 1018-1020: the first start_worker(), then the main loop.
UiStart ==
    /\ uipc = "setup"
    /\ uipc' = "idle"
    /\ start_worker
    /\ UNCHANGED <<q, worker_running, putLog, uiLaunches>>
    /\ BootUiFrame

\* ModernButton._on_click of the Retry button: nothing unless it is enabled.
RetryClick ==
    /\ uipc \in {"idle", "closing"}
    /\ retryEnabled
    /\ Len(threads) < MaxWorkers
    /\ start_worker
    /\ UNCHANGED <<uipc, q, worker_running, putLog, uiLaunches>>
    /\ BootUiFrame

\* worker(), line 536: the first statement of the new thread
ThreadBegin(i) ==
    /\ Runs(i)
    /\ threads[i] = "new"
    /\ threads' = [threads EXCEPT ![i] = "try"]
    /\ worker_running' = TRUE
    /\ Logged(i, <<"set">>)
    /\ UNCHANGED <<uipc, q, retryEnabled, uiLaunches>>
    /\ BootUiFrame

\* Lines 545-564: status and progress messages while the install goes on
ThreadStatus(i) ==
    /\ Runs(i)
    /\ threads[i] = "try"
    /\ threads' = [threads EXCEPT ![i] = "work"]
    /\ Put(i, "status")
    /\ Logged(i, <<"status">>)
    /\ UNCHANGED <<uipc, worker_running, retryEnabled, uiLaunches>>
    /\ BootUiFrame

\* Lines 565-566: the install went through
ThreadSucceed(i) ==
    /\ Runs(i)
    /\ threads[i] \in {"work", "complete"}
    /\ IF threads[i] = "work"
       THEN /\ threads' = [threads EXCEPT ![i] = "complete"]
            /\ Put(i, "status")
            /\ Logged(i, <<"status">>)
       ELSE /\ threads' = [threads EXCEPT ![i] = "terminal"]
            /\ Put(i, "launch")
            /\ Logged(i, <<"launch">>)
    /\ UNCHANGED <<uipc, worker_running, retryEnabled, uiLaunches>>
    /\ BootUiFrame

ThreadFail_without_return(i) ==
    /\ Runs(i)
    /\ threads[i] \in {"try", "work"}
    /\ threads' = [threads EXCEPT ![i] = "terminal"]
    /\ q' = q \o <<[w |-> i, kind |-> "brew_missing"], [w |-> i, kind |-> "error"]>>
    /\ Logged(i, <<"raise", "brew_missing", "error">>)
    /\ UNCHANGED <<uipc, worker_running, retryEnabled, uiLaunches>>
    /\ BootUiFrame

\* Lines 567-576: an exception anywhere in the try block
ThreadFail(i) ==
    /\ Runs(i)
    /\ threads[i] \in {"try", "work"}
    /\ threads' = [threads EXCEPT ![i] = "terminal"]
    /\ \E kind \in {"error", "brew_missing"} :
          Put(i, kind) /\ Logged(i, <<"raise", kind>>)
    /\ UNCHANGED <<uipc, worker_running, retryEnabled, uiLaunches>>
    /\ BootUiFrame

\* Lines 577-578: finally
ThreadFinally(i) ==
    /\ Runs(i)
    /\ threads[i] = "terminal"
    /\ threads' = [threads EXCEPT ![i] = "done"]
    /\ worker_running' = FALSE
    /\ Logged(i, <<"reset">>)
    /\ UNCHANGED <<uipc, q, retryEnabled, uiLaunches>>
    /\ BootUiFrame

\* The timer fires: poll() starts (line 760), or ends on queue.Empty and
\* re-arms itself (lines 924-926).
PollTimer ==
    /\ \/ uipc \in {"idle", "closing"} /\ uipc' = "polling"
       \/ uipc = "polling" /\ q = <<>>
          /\ uipc' = IF \E k \in DOMAIN uiLaunches : uiLaunches[k].started
                     THEN "closing" ELSE "idle"
    /\ UNCHANGED <<threads, q, worker_running, retryEnabled, putLog, uiLaunches>>
    /\ BootUiFrame

\* poll(): one q.get_nowait() and the branch for that message (lines 763-923)
PollGet ==
    /\ uipc = "polling"
    /\ q # <<>>
    /\ q' = Tail(q)
    /\ LET msg == Head(q)
       IN CASE msg.kind \in {"error", "brew_missing"} ->
                 retryEnabled' = TRUE /\ UNCHANGED uiLaunches
            [] msg.kind = "launch" ->
                 \E keys \in BOOLEAN, started \in BOOLEAN :
                    IF ~keys
                    THEN retryEnabled' = TRUE /\ UNCHANGED uiLaunches
                    ELSE /\ uiLaunches' = Append(uiLaunches,
                                                 [kind |-> msg.kind, started |-> started])
                         /\ retryEnabled' = IF started THEN retryEnabled ELSE TRUE
            [] OTHER -> UNCHANGED <<retryEnabled, uiLaunches>>
    /\ UNCHANGED <<uipc, threads, worker_running, putLog>>
    /\ BootUiFrame

\* root.after(300, root.destroy) comes due.
UiDestroy ==
    /\ uipc = "closing"
    /\ uipc' = "exited"
    /\ UNCHANGED <<threads, q, worker_running, retryEnabled, putLog, uiLaunches>>
    /\ BootUiFrame

BootUiNext ==
    \/ UiStart
    \/ RetryClick
    \/ \E i \in 1..MaxWorkers : ThreadBegin(i)
    \/ \E i \in 1..MaxWorkers : ThreadStatus(i)
    \/ \E i \in 1..MaxWorkers : ThreadSucceed(i)
    \/ \E i \in 1..MaxWorkers : ThreadFail(i)
    \/ \E i \in 1..MaxWorkers : ThreadFinally(i)
    \/ PollTimer
    \/ PollGet
    \/ UiDestroy

BootUiSpec == BootUiInit /\ [][BootUiNext]_vars





(***************************************************************************)
(* Properties                                                              *)
(***************************************************************************)

\* run_startup_update_flow has returned a decision, or an exception left it.
FlowReturned == decision.action # "none"
FlowEnded == FlowReturned \/ raised # "none"

\* The digest the manifest document declares, compared case-insensitively.
DeclaredSha == Lower(Strip(body.fields.payload_sha256.s))

\* C1: with a runtime installed, a valid manifest naming a newer version and a
\* downloaded payload whose SHA-256 differs from the declared one, the decision
\* is launch_blocked, decision.error is the integrity error naming the expected
\* and the actual digest, and RUNTIME_DIR is as it was before the flow started.
C1_HashMismatchBlocks ==
    (FlowReturned /\ served.ok /\ SHA256Hex(served.bytes) # DeclaredSha)
    => /\ decision.action = "launch_blocked"
       /\ decision.error = Msg("hash_mismatch", DeclaredSha, SHA256Hex(served.bytes))
       /\ active = active0

C1_Witness ==
    /\ FlowReturned
    /\ runtime_installed(active0)
    /\ served.ok
    /\ SHA256Hex(served.bytes) # DeclaredSha
    /\ decision.action = "launch_blocked"

\* C2: when the startup decision is launch_blocked, main() launches nothing,
\* never starts the bootstrap flow, shows the error and returns 1.
C2_BlockedNeverLaunches ==
    (entry = "main" /\ decision.action = "launch_blocked")
    => /\ launched = NoDir
       /\ pc # "bootstrap"
       /\ wpc = "idle"
       /\ (pc = "main_done" => uiShown /\ exitCode = 1)

C2_Witness ==
    /\ entry = "main"
    /\ decision.action = "launch_blocked"
    /\ pc = "main_done"
    /\ exitCode = 1
    /\ launched = NoDir

\* C3: at every instant during and after atomic_swap_runtime, a crash between
\* two of its steps included, the active path holds the complete old
\* installation or the complete new one and is never absent.
C3_ActiveAlwaysOldOrNew ==
    active0.exists => (active.exists /\ (active = active0 \/ active.gen = "new"))

\* C4: if the rename staging -> active fails, then when atomic_swap_runtime
\* propagates the failure the active path holds exactly the pre-swap
\* installation.
C4_FailedRenameRestores ==
    (spc = "raised" /\ swapFailedAt = "move_staging") => active = active0

C4_Witness ==
    /\ spc = "raised"
    /\ swapFailedAt = "move_staging"
    /\ fault = "move_staging"
    /\ active0.exists
    /\ active = active0
    /\ backup = NoDir
    /\ staging.exists

\* C5: in the update flow and in the first-install bootstrap alike, an archive
\* is unpacked only after its digest was found equal to the expected one.
C5_ExtractOnlyVerified ==
    \A e \in extractions : e.expected = SHA256Hex(e.bytes)

\* C6: with an older runtime installed, a valid manifest naming a newer
\* version, a download whose hash matches and no failure of the environment
\* during the staged install and swap, the flow returns updated_and_launch and
\* the active version marker reads the manifest's runtime_version.
C6_UpdateApplied ==
    (/\ FlowReturned
     /\ FullMatchVersion(read_local_runtime_version(active0))
     /\ served.ok /\ SHA256Hex(served.bytes) = DeclaredSha
     /\ installAttempted /\ installClean)
    => /\ decision.action = "updated_and_launch"
       /\ installed_runtime_version(active).s = Strip(body.fields.runtime_version.s)

\* C7: a run of the flow that ends in launch_current or launch_blocked leaves
\* everything under RUNTIME_DIR, its model cache included, where it was.
C7_ActiveUntouched ==
    (pc = "flow_done" /\ decision.action \in {"launch_current", "launch_blocked"})
    => active = active0

\* The served manifest document fails validation in some way.
ManifestInvalid == ~body.json \/ validate_manifest(body).exc # "none"

\* C8: with a runtime installed and a manifest document that fails validation
\* in any way, the flow returns launch_current; nothing is raised out of the
\* flow and no download is attempted.
C8_InvalidManifestLaunchesCurrent ==
    (FlowEnded /\ runtime_installed(active0) /\ fetched = "response" /\ ManifestInvalid)
    => /\ decision.action = "launch_current"
       /\ raised = "none"
       /\ downloads = 0

\* C9: with a runtime installed and a manifest fetch that fails at transport
\* level, the flow returns launch_current, attempts no download, and the
\* written event log holds an "offline" message naming the local version.
C9_OfflineLaunchesCurrent ==
    (FlowEnded /\ fetched \in TransportFailures)
    => /\ decision.action = "launch_current"
       /\ raised = "none"
       /\ downloads = 0
       /\ startupLog.written
       /\ \E i \in 1..Len(startupLog.lines) :
             /\ startupLog.lines[i].kind = "offline"
             /\ startupLog.lines[i].a = read_local_runtime_version(active0)

C9_Witness ==
    /\ FlowReturned
    /\ fetched = "timeout"
    /\ runtime_installed(active0)
    /\ decision.action = "launch_current"
    /\ startupLog.written
    /\ startupLog.lines[Len(startupLog.lines)].kind = "offline"

\* Padded tuple ordering, stated component by component.
Component(t, i) == IF i <= Len(t) THEN t[i] ELSE 0

PaddedGreater(r, l) ==
    \E i \in 1..Max(Len(r), Len(l)) :
        /\ Component(r, i) > Component(l, i)
        /\ \A j \in 1..(i - 1) : Component(r, j) = Component(l, j)

\* A valid manifest was fetched and its version is not newer than the local one.
RemoteNotNewer ==
    /\ runtime_installed(active0)
    /\ fetched = "response"
    /\ ~ManifestInvalid
    /\ ~PaddedGreater(parse_version(Strip(body.fields.runtime_version.s)).val,
                      parse_version(normalize_compare_version(
                          read_local_runtime_version(active0))).val)

\* C10: when the manifest's runtime_version is not newer than the local version
\* under padded tuple ordering, the flow returns launch_current and neither the
\* payload download nor the install is attempted.
C10_NotNewerLaunchesCurrent ==
    (FlowEnded /\ RemoteNotNewer)
    => /\ decision.action = "launch_current"
       /\ downloads = 0
       /\ ~installAttempted

C10_Witness ==
    /\ FlowReturned
    /\ RemoteNotNewer
    /\ decision.action = "launch_current"
    /\ read_local_runtime_version(active0) = V019
    /\ Strip(body.fields.runtime_version.s) = V0190

\* C11: if the installed-marker file is absent, run_startup_update_flow returns
\* bootstrap_required whatever the version marker, the network and the manifest
\* are, and the manifest is not fetched.
C11_NoMarkerBootstraps ==
    (entry = "flow" /\ FlowEnded /\ ~active0.installed)
    => /\ decision.action = "bootstrap_required"
       /\ fetched = "none"
       /\ downloads = 0

C11_Witness ==
    /\ entry = "flow"
    /\ FlowReturned
    /\ active0.exists /\ active0.venv /\ active0.hasVersion
    /\ ~active0.installed
    /\ decision.action = "bootstrap_required"

\* C12: when a newer version is offered and the payload download fails for a
\* transport reason, the flow returns launch_current, never launch_blocked,
\* and no install or swap is attempted.
C12_DownloadFailureLaunchesCurrent ==
    (FlowEnded /\ downloads > 0 /\ ~served.ok)
    => /\ decision.action = "launch_current"
       /\ raised = "none"
       /\ ~installAttempted
       /\ \A x \in extractions : x.flow # "update"
       /\ (pc = "flow_done" => active = active0 /\ backup = NoDir)

C12_Witness ==
    /\ FlowReturned
    /\ downloads = 1 /\ ~served.ok /\ served.partial
    /\ decision.action = "launch_current"
    /\ ~installAttempted

\* C13: once the payload is verified, a staged install that fails for a reason
\* other than integrity (seeding, extraction, a call that raises) makes the
\* flow return launch_current; it neither blocks the launch nor raises.
C13_InstallFailureLaunchesCurrent ==
    (FlowEnded /\ installAttempted /\ installExc \notin {"none", "IntegrityError"})
    => /\ decision.action = "launch_current"
       /\ raised = "none"
       /\ decision.error = NoMsg

C13_Witness ==
    /\ FlowReturned
    /\ served.ok /\ Lower(SHA256Hex(served.bytes)) = DeclaredSha
    /\ installExc = "TarError"
    /\ decision.action = "launch_current"

\* C14: when the downloaded bytes do not hash to the expected digest,
\* download_payload_with_hash raises IntegrityError, and once it has raised no
\* file holding those bytes remains at the destination path.
C14_TamperedFileRemoved ==
    (downloads > 0 /\ served.ok /\ Lower(SHA256Hex(served.bytes)) # DeclaredSha)
    => /\ FlowReturned /\ decision.action = "launch_blocked"
       /\ payloadFile # served.bytes

\* C15: every evaluation of run_startup_update_flow that returns a decision,
\* whichever it is, has written the startup event log (one line per message of
\* the decision) and the update-state record exactly once, and nothing is
\* written before the decision is reached.
C15_FinalizeWritesOnce ==
    /\ FlowReturned
       => /\ logWrites = 1 /\ stateWrites = 1
          /\ startupLog.written /\ updateState.written
          /\ Len(startupLog.lines) = Len(decision.messages)
          /\ startupLog.lines = decision.messages
          /\ updateState.action = decision.action
    /\ ~FlowReturned
       => /\ logWrites = 0 /\ stateWrites = 0
          /\ ~startupLog.written /\ ~updateState.written

C15_Witness ==
    /\ FlowReturned
    /\ decision.action = "launch_blocked"
    /\ logWrites = 1 /\ stateWrites = 1
    /\ Len(startupLog.lines) > 3

\* C16: the startup event log is read and deleted exactly once by the
\* application on its next successful start: after load_startup_update_log has
\* run the file is gone, no log is shown by two starts, and no written log is
\* lost (overwritten or removed) before a successful start has shown it.
C16_LogShownExactlyOnce ==
    /\ appPc = "running" => ~startupLog.written
    /\ \A i, j \in DOMAIN shownIds : i # j => shownIds[i] # shownIds[j]
    /\ \A k \in Written : k = LogOwner \/ \E i \in DOMAIN shownIds : shownIds[i] = k

\* What the claim requires of an accepted manifest, read literally.
C17_FieldBad(f) == ~f.present \/ ~f.isStr

C17_ShaExact(sha) ==
    /\ Len(sha) = 64
    /\ \A i \in 1..Len(sha) : sha[i] \in HexChars

C17_MustFail(m) ==
    \/ ~m.isDict
    \/ C17_FieldBad(m.fields.runtime_version)
    \/ C17_FieldBad(m.fields.payload_url)
    \/ C17_FieldBad(m.fields.payload_sha256)
    \/ parse_version(m.fields.runtime_version.s).exc # "none"
    \/ ~C17_ShaExact(m.fields.payload_sha256.s)
    \/ ~StartsWith(m.fields.payload_url.s, T_https)

\* C17: validate_manifest fails with ManifestError whenever a required field is
\* missing or not a string, runtime_version does not parse as a version,
\* payload_sha256 is not exactly 64 lowercase hex characters, or payload_url
\* does not begin with https://; it accepts only when none of these holds.
C17_ValidateManifestStrict ==
    (manifestVerdict # "none" /\ C17_MustFail(manifest))
    => manifestVerdict = "ManifestError"

\* The flow went past the runtime_installed() test with this directory.
C18_TreatedAsInstalled ==
    \/ FlowEnded /\ fetched # "none"
    \/ FlowReturned /\ decision.action # "bootstrap_required"
    \/ entry = "main" /\ pc = "flow_begin"

\* C18: an installation is treated as valid only when both marker files exist
\* and the version marker holds a syntactically valid dotted-integer version;
\* a directory missing either marker, or with a malformed version marker, is
\* never treated as installed by runtime_installed() or by the startup flow.
C18_OnlyValidMarkersInstalled ==
    (C18_TreatedAsInstalled /\ runtime_installed(active0))
    => /\ active0.installed
       /\ active0.hasVersion
       /\ FullMatchVersion(Strip(active0.versionText))

InstallerEnded == ipc \in {"exited", "returned"}

\* C19: the installer writes the installed-marker and the version-marker only
\* as its final step: while it runs and after it aborted neither marker
\* exists, and after it returned success both exist, so that
\* runtime_installed() holds for the directory.
C19_MarkersWrittenLast ==
    /\ ~InstallerEnded => ~active.installed /\ ~active.hasVersion
    /\ (InstallerEnded /\ exitCode # 0) => ~active.installed /\ ~active.hasVersion
    /\ (InstallerEnded /\ exitCode = 0)
       => active.installed /\ active.hasVersion /\ runtime_installed(active)

\* C20: the installer sub-steps run strictly in order; when one exits non-zero
\* no later one runs, the installer and bootstrap._install_runtime fail, no
\* marker is written, and a staged install with that failure does not put a
\* new tree into RUNTIME_DIR.
C20_StepsInOrderFailureStops ==
    /\ \A i \in DOMAIN stepsRun : stepsRun[i] = i
    /\ failedStep # 0
       => /\ Len(stepsRun) = failedStep
          /\ ipc \in {"exited", "returned"}
          /\ exitCode = 1
          /\ ~active.installed
          /\ ipc = "returned" => raised = "RuntimeError"
          /\ \A env \in InstallEnvs :
                env.failStep = failedStep
                => LET fs0 == [FS EXCEPT !.active = InstalledDir("old", V015, FALSE)]
                       r == install_runtime_from_payload(fs0, "genuine", V02, env)
                   IN r.exc # "none" /\ r.fs.active.gen = "old"

C20_Witness ==
    /\ failedStep = 2
    /\ stepsRun = <<1, 2>>
    /\ ipc = "returned"
    /\ raised = "RuntimeError"
    /\ active.venv /\ ~active.installed

\* The local version marker is there but holds no dotted-integer version.
C21_LocalMalformed ==
    /\ runtime_installed(active0)
    /\ ~FullMatchVersion(Strip(active0.versionText))

C22_PaddedTupleOrder ==
    vcmp.done
    => /\ vcmp.newer = PaddedGreater(parse_version(vcmp.b).val, parse_version(vcmp.a).val)
       /\ vcmp.newerPadded = vcmp.newer
       /\ (vcmp.a = V019 /\ vcmp.b = V02) => vcmp.newer

C22_Witness ==
    /\ vcmp.done
    /\ vcmp.a = V019 /\ vcmp.b = V02
    /\ vcmp.newer /\ vcmp.newerPadded

\* A revision id as the claims describe it: 40 lowercase hexadecimal characters.
C24_ValidId(x) ==
    /\ Len(x) = 40
    /\ \A i \in 1..Len(x) :
          x[i] \in {"0", "1", "2", "3", "4", "5", "6", "7", "8", "9",
                    "a", "b", "c", "d", "e", "f"}

\* The call was a non-forced check made less than min_interval_hours after the
\* time the persisted last_check_at names.
C23_Inside ==
    /\ mres.op = "check"
    /\ ~mres.force
    /\ \E h \in 0..MaxClock :
          mres.before.last_check_at = iso_now(h) /\ mres.at - h < mres.interval

\* C23 as stated: a non-forced check_for_update queries the registry only when
\* no last_check_at is persisted or at least min_interval_hours have elapsed
\* since it.
C23_QueryOnlyWithoutTimestampOrElapsed ==
    (mres.op = "check" /\ ~mres.force /\ mres.out.queried)
    => \/ mres.before.last_check_at = <<>>
       \/ \E h \in 0..MaxClock :
             mres.before.last_check_at = iso_now(h) /\ mres.at - h >= mres.interval

\* C23, amended: a non-forced check_for_update queries the registry exactly when
\* the persisted last_check_at is absent or not a readable timestamp, or at
\* least min_interval_hours have elapsed since it; inside the interval it
\* answers from the persisted state (update_available exactly when the stored
\* last_remote_sha is a valid id different from the local one), makes no remote
\* query and leaves the persisted state as it was.
C23_ThrottledCheck ==
    /\ (mres.op = "check" /\ ~mres.force) => (mres.out.queried <=> ~C23_Inside)
    /\ C23_Inside
       => /\ ~mres.out.queried
          /\ ~mres.out.saved
          /\ modelState = mres.before
          /\ refsMain = mres.refsBefore
          /\ (mres.out.res.status = "update_available")
                <=> (/\ C24_ValidId(mres.before.last_remote_sha)
                     /\ mres.before.last_remote_sha # mres.out.res.local_sha)
          /\ mres.out.res.status = "update_available"
                => /\ mres.out.res.remote_sha = mres.before.last_remote_sha
                   /\ ~mres.out.res.should_prompt

C23_Witness ==
    /\ C23_Inside
    /\ mres.at = 1
    /\ mres.out.res.status = "update_available"
    /\ mres.out.res.local_sha = ShaA
    /\ mres.out.res.remote_sha = ShaB
    /\ ~mres.out.queried

C24_ValidOrAbsent(x) == x = <<>> \/ C24_ValidId(x)

\* C24: every id a model_update call returns as local_sha or remote_sha,
\* downloads as a revision, writes to refs/main, or newly persists as
\* last_remote_sha, last_installed_sha or deferred_sha is 40 lowercase
\* hexadecimal characters; any other value is treated as absent.
C24_OnlyValidRevisionIds ==
    mres.op # "none"
    => /\ C24_ValidOrAbsent(mres.out.res.local_sha)
       /\ C24_ValidOrAbsent(mres.out.res.remote_sha)
       /\ \A i \in DOMAIN mres.out.downloaded : C24_ValidId(mres.out.downloaded[i])
       /\ refsMain # mres.refsBefore
          => \/ refsMain = <<>>
             \/ /\ refsMain[Len(refsMain)] = "\n"
                /\ C24_ValidId(SubSeq(refsMain, 1, Len(refsMain) - 1))
       /\ modelState.last_remote_sha # mres.before.last_remote_sha
          => C24_ValidOrAbsent(modelState.last_remote_sha)
       /\ modelState.last_installed_sha # mres.before.last_installed_sha
          => C24_ValidOrAbsent(modelState.last_installed_sha)
       /\ modelState.deferred_sha # mres.before.deferred_sha
          => C24_ValidOrAbsent(modelState.deferred_sha)

\* C25: apply_update downloads one revision id and no other, writes refs/main
\* with that id only after the download succeeded, and on success persists
\* last_installed_sha = last_remote_sha = that id with deferred_sha and
\* last_error cleared; if the download or the pointer write fails,
\* last_installed_sha and last_remote_sha keep their previous values and only
\* last_error changes.
C25_ApplyPinsOneRevision ==
    mres.op = "apply"
    => LET id == mres.out.res.remote_sha
           ok == mres.out.res.status = "success"
       IN /\ Len(mres.out.downloaded) <= 1
          /\ \A i \in DOMAIN mres.out.downloaded : mres.out.downloaded[i] = id
          /\ mres.arg # <<>> => id = mres.arg /\ ~mres.out.queried
          /\ id # <<>> => Len(mres.out.downloaded) = 1
          /\ ok <=> (id # <<>> /\ mres.fault = "none")
          /\ ok => /\ mres.out.downloaded = <<id>>
                   /\ refsMain = id \o <<"\n">>
                   /\ modelState.last_installed_sha = id
                   /\ modelState.last_remote_sha = id
                   /\ modelState.deferred_sha = <<>>
                   /\ modelState.last_error = "none"
          /\ ~ok => /\ refsMain \in {mres.refsBefore, <<>>}
                    /\ mres.fault = "download" => refsMain = mres.refsBefore
                    /\ modelState.last_error # "none"
                    /\ modelState = [mres.before EXCEPT !.last_error = modelState.last_error]

C25_Witness ==
    /\ mres.op = "apply"
    /\ mres.fault = "refs_write"
    /\ mres.out.downloaded = <<ShaB>>
    /\ mres.out.res.status = "failure"
    /\ mres.before.last_installed_sha = ShaA
    /\ modelState.last_installed_sha = ShaA
    /\ modelState.last_error = "write_error"
    /\ mres.refsBefore = ShaA \o <<"\n">>
    /\ refsMain = <<>>

\* C30: a remote check that fails (timeout or registry error) still persists
\* last_check_at and last_error and leaves last_remote_sha and
\* last_installed_sha unchanged, so the next non-forced check_for_update inside
\* min_interval_hours performs no remote query; mark_deferred throttles the
\* next check in the same way.
C30_FailedCheckThrottles ==
    /\ (mres.op = "check" /\ mres.out.queried /\ mres.out.res.error # "none")
       => /\ mres.out.res.status \in {"offline", "error"}
          /\ modelState.last_check_at = iso_now(mres.at)
          /\ modelState.last_error = mres.out.res.error
          /\ modelState.last_remote_sha = mres.before.last_remote_sha
          /\ modelState.last_installed_sha = mres.before.last_installed_sha
    /\ (mres.op = "defer") => modelState.last_check_at = iso_now(mres.at)
    /\ (/\ mres.op = "check" /\ ~mres.force
        /\ \/ mres.prev.op = "check" /\ mres.prev.status \in {"offline", "error"}
           \/ mres.prev.op = "defer"
        /\ mres.at - mres.prev.at < mres.interval)
       => /\ ~mres.out.queried
          /\ modelState = mres.before

C30_Witness ==
    /\ mres.op = "check" /\ ~mres.force
    /\ mres.prev.op = "check" /\ mres.prev.status = "offline"
    /\ mres.prev.at = 0 /\ mres.at = 1 /\ mres.interval = 2
    /\ mres.before.last_error = "timeout"
    /\ ~mres.out.queried
    /\ mres.out.res.status = "up_to_date"

\* What the claims expect a finished query to report for an answer.
C26_Reported(answer) ==
    IF answer.kind = "error" THEN [sha |-> <<>>, error |-> "registry_error"]
    ELSE IF C24_ValidId(answer.sha) THEN [sha |-> answer.sha, error |-> "none"]
    ELSE [sha |-> <<>>, error |-> "invalid_remote_sha"]

C26_ReturnedPair == [sha |-> fret.sha, error |-> fret.error]

C26_Safe ==
    /\ fret.set
       => /\ fret.alive => C26_ReturnedPair = [sha |-> <<>>, error |-> "timeout"]
          /\ ~fret.alive => C26_ReturnedPair = C26_Reported(fanswer)
          /\ fanswer.kind = "timeout" => fret.alive
    /\ fpc # "persisted" => modelState = mres.before \/ mres.op = "none"
    /\ (fpc = "persisted" /\ fret.alive)
       => /\ modelState.last_error = "timeout"
          /\ modelState.last_remote_sha = mres.before.last_remote_sha
          /\ modelState.last_installed_sha = mres.before.last_installed_sha
          /\ mres.out.res.status \in {"offline", "error"}
          /\ mres.out.res.remote_sha = <<>>

\* C26: _fetch_remote_model_sha returns once timeout_s elapses even if the
\* registry query never finishes, reporting (None, timeout error); the
\* abandoned query thread, however it goes on afterwards, changes neither the
\* value already returned nor any persisted model-update state.
C26_ReturnsAtTimeout ==
    /\ []C26_Safe
    /\ <>(fret.set)
    /\ [][fret.set => fret' = fret]_vars
    /\ [][tpc' # tpc => modelState' = modelState /\ mres' = mres]_vars

C26_Witness ==
    /\ fpc = "persisted"
    /\ fret.alive
    /\ tpc = "done"
    /\ fresult.sha = ShaB
    /\ modelState.last_error = "timeout"
    /\ modelState.last_remote_sha = ShaA

\* The file the claims expect after a save: every default key, the values of
\* the dict that was saved where it has them.
C29_NewFile ==
    [exists |-> TRUE, written |-> "all",
     rec |-> [k \in {"last_check_at", "last_remote_sha", "last_installed_sha",
                     "deferred_sha", "last_error"} \cup DOMAIN sv.arg |->
                 IF k \in DOMAIN sv.arg THEN sv.arg[k]
                 ELSE IF k = "last_error" THEN "none" ELSE <<>>]]

\* C29: save_state replaces the state file by one rename of a fully written
\* temp file: at every point during save_state, and after it returns or
\* raises, the state file holds the complete previous or the complete new
\* record (all default keys present), and no temp file is left behind.
C29_AtomicSave ==
    sv.pc # "idle"
    => /\ stateFile = sv.prev \/ stateFile = C29_NewFile
       /\ stateFile.exists
          => /\ stateFile.written = "all"
             /\ {"last_check_at", "last_remote_sha", "last_installed_sha", "deferred_sha",
                 "last_error"} \subseteq DOMAIN stateFile.rec
       /\ sv.pc \in {"returned", "raised"} => ~tempFile.exists
       /\ sv.pc = "returned" => stateFile = C29_NewFile /\ sv.fault = "none"
       /\ sv.pc = "raised" => stateFile = sv.prev

C29_Witness ==
    /\ sv.pc = "raised"
    /\ sv.fault = "flush"
    /\ sv.prev.exists
    /\ stateFile = sv.prev
    /\ ~tempFile.exists

\* The worker threads that were started and have not yet left worker().
C27_Unfinished == {i \in DOMAIN threads : threads[i] # "done"}

\* C27: under every interleaving of Retry clicks, poll ticks and worker
\* progress at most one bootstrap worker thread is running at any time;
\* start_worker never starts a second worker while an earlier one has not
\* finished.
C27_OneWorkerAtATime ==
    /\ Cardinality(C27_Unfinished) <= 1
    /\ \A i \in DOMAIN threads : i < Len(threads) => threads[i] = "done"

C27_Witness ==
    /\ Len(threads) = 2
    /\ threads[1] = "done"
    /\ threads[2] = "work"
    /\ worker_running
    /\ ~retryEnabled

\* What worker thread w put on the queue and did to the flag, in order.
C28_Trace(w) == SelectSeq(putLog, LAMBDA e : e.w = w)

C28_Terminal(e) == e.kind \in {"launch", "error", "brew_missing"}

\* C28: every run of the worker thread ends by putting exactly one terminal
\* message on the queue (launch on success, otherwise error or brew_missing),
\* puts no further message after it, and then resets worker_running to False;
\* the UI launches the runtime app only in response to a launch message.
C28_OneTerminalMessage ==
    /\ \A w \in DOMAIN threads :
          LET t == C28_Trace(w)
              n == Len(t)
          IN /\ Len(SelectSeq(t, C28_Terminal)) <= 1
             /\ \A k \in 1..n :
                   C28_Terminal(t[k]) => /\ k >= n - 1
                                         /\ k = n - 1 => t[n].kind = "reset"
             /\ \A k \in 1..n :
                   t[k].kind = "launch" <=> (/\ C28_Terminal(t[k])
                                             /\ \A j \in 1..n : t[j].kind # "raise")
             /\ threads[w] = "done"
                => /\ n >= 2
                   /\ C28_Terminal(t[n - 1])
                   /\ t[n].kind = "reset"
                   /\ Len(SelectSeq(t, LAMBDA e : e.kind = "reset")) = 1
             /\ (n > 0 /\ t[n].kind = "reset") => threads[w] = "done"
    /\ \A k \in DOMAIN uiLaunches : uiLaunches[k].kind = "launch"
    /\ Len(uiLaunches) <= Len(SelectSeq(putLog, LAMBDA e : e.kind = "launch"))

C28_Witness ==
    /\ Len(threads) = 2
    /\ threads[1] = "done"
    /\ threads[2] = "done"
    /\ \E k \in DOMAIN putLog : putLog[k] = [w |-> 1, kind |-> "brew_missing"]
    /\ \E k \in DOMAIN putLog : putLog[k] = [w |-> 2, kind |-> "error"]
    /\ q = <<>>
    /\ retryEnabled
    /\ ~worker_running
    /\ uiLaunches = <<>>

====
